---------------------------- MODULE Spec2Model ----------------------------
(***************************************************************************)
(* Verification model of the Vegas dual tunnel trading bot.                *)
(*                                                                         *)
(* Twelve specifications share the module:                                 *)
(*   SpecSignal  the entry / exit decision of VegasTunnelStrategy          *)
(*               (GenerateSignal, CheckEMA12Exit) over drawn series and    *)
(*               indicator values;                                         *)
(*   SpecBot     the Telegram bot: updates, command handlers and replies;  *)
(*   SpecTunnel  CalculateTunnelData over a whole series, on CalculateEMA's *)
(*               results;                                                  *)
(*   SpecEMA     CalculateEMA as a function of its prices and period, in   *)
(*               decimals with a coefficient and an exponent;              *)
(*   SpecStore   the rolling bar series kept by UpdateKlineData, with the  *)
(*               program's caps;                                           *)
(*   Spec        the ingestion path StrategyHandler.HandleKlineData ->     *)
(*               StrategyManager.ProcessKlineData -> GenerateSignal;       *)
(*   SpecStream  StreamManager and the WebSocket client's handler table;   *)
(*   SpecShutdown  StreamManager.Stop against the goroutine                *)
(*               monitorConnections, step by step on StreamManager.mu;     *)
(*   SpecExecutor  TradeExecutor: ExecuteTrade and the goroutines          *)
(*               setStopLossAndTakeProfit, Start and Stop;                 *)
(*   SpecNotify  NotificationManager: Start, Stop, SendNotification and    *)
(*               the workers on the queue channel;                         *)
(*   SpecManager StrategyManager: the registry, Start, Stop and            *)
(*               ExecuteStrategiesAsync;                                   *)
(*   SpecClient  WebSocketClient: Start, Stop, connectionLoop and          *)
(*               messageLoop.                                              *)
(*                                                                         *)
(* Decimals (shopspring/decimal, exact) are integers counting thousandths: *)
(* every price and EMA value drawn is a whole number, so each product by   *)
(* 0.998, 1.002 or the risk/reward ratio is exact in thousandths.          *)
(*                                                                         *)
(* SpecSignal does not run CalculateEMA's recursion: the EMA values at the *)
(* last index of a series are drawn from small sets, every combination     *)
(* admitted, so what holds there holds for whatever the recursion yields.  *)
(* SpecStore starts each series empty or one bar short of its cap, the     *)
(* state that many UpdateKlineData calls below the cap lead to.            *)
(***************************************************************************)
EXTENDS Integers, Sequences, FiniteSets, TLC

VARIABLES
  params,         \* VegasTunnelStrategy: the five EMA periods and the percents
  kline15MData,   \* VegasTunnelStrategy.kline15MData
  kline4HData,    \* VegasTunnelStrategy.kline4HData
  ema15M,         \* the EMA values CalculateEMA yields at the last 15M index
  ema4H,          \* the EMA values CalculateEMA yields at the last 4H index
  lastCall,       \* the last strategy call made and its arguments
  lastSignal,     \* what that call returned (*TradingSignal, or nil)
  emaCall,        \* a call of CalculateEMA: its prices, its period, made or not
  emaResult,      \* what CalculateEMA returned ([]decimal.Decimal, or nil)
  tunnelCall,     \* a call of CalculateTunnelData: its closes, made or not
  tunnelResult,   \* what CalculateTunnelData returned ([]TunnelData, or nil)
  fed15M,         \* every bar passed to UpdateKlineData(.., "15m"), in order
  fed4H,          \* every bar passed to UpdateKlineData(.., "4h"), in order
  strategies,     \* StrategyManager.strategies (names registered)
  goroutines,     \* evaluations spawned by ProcessKlineData, not yet run
  lastMsg,        \* the last kline message given to HandleKlineData, and
                  \* how many were given
  handlerRet,     \* what HandleKlineData returned for it
  evalLog,        \* bars handed to GenerateSignal by the goroutines, in order
  smRunning,      \* StreamManager.running
  smSubscriptions,\* StreamManager.subscriptions: key -> Active
  wsStreams,      \* WebSocketClient.streams
  wsHandlers,     \* WebSocketClient.handlers: stream -> handler (or nil)
  wsConnStreams,  \* streams of the URL the client is connected with
  wsRunning,      \* WebSocketClient.isRunning
  panicked,       \* the process died of a call on a nil handler
  dispatch,       \* the last handleMessage: its stream and what it called
  smMu,           \* who holds StreamManager.mu: "free", "Stop" or "monitor"
  smCtxDone,      \* StreamManager.ctx is cancelled
  stopPc,         \* where the call of StreamManager.Stop is
  monitorPc,      \* where the goroutine monitorConnections is
  botRunning,     \* telegram.Bot.isRunning
  botProcessors,  \* messageProcessor and updateProcessor are started
  botQueue,       \* telegram.Bot.messageQueue
  botSent,        \* the messages api.Send has sent, in order
  botUpdate,      \* the last update given to handleUpdate, how many were
                  \* given, and the handler it was dispatched to
  teRunning,      \* TradeExecutor.isRunning
  teCtxDone,      \* TradeExecutor.ctx is cancelled
  teTasks,        \* goroutines setStopLossAndTakeProfit not yet finished
  teOrders,       \* the orders binanceClient.PlaceOrder accepted, in order
  teCall,         \* the last ExecuteTrade call made from outside: its
                  \* request, what it returned, and how many were made
  nmRunning,      \* NotificationManager.running
  nmCtxDone,      \* NotificationManager.ctx is cancelled
  nmClosed,       \* NotificationManager.queue is closed
  nmQueue,        \* the notifications buffered in NotificationManager.queue
  nmWorkers,      \* how many worker goroutines have not returned
  nmProcessed,    \* per notification, how often processNotification ran
  nmSend,         \* the SendNotification calls: how many were made, the one
                  \* between its test of running and its send, and those
                  \* that returned nil
  nmStarts,       \* how many Start calls returned nil
  nmPanic,        \* the runtime panic that ended the process, or "none"
  stmRunning,     \* StrategyManager.isRunning
  stmCtxDone,     \* StrategyManager.ctx is cancelled
  stmInstance,    \* StrategyManager.strategies: the strategy under each name
  regCall,        \* the last RegisterStrategy, UnregisterStrategy or
                  \* GetStrategy call: its arguments and what it returned
  regLive,        \* the names whose registration returned nil and that no
                  \* UnregisterStrategy returning nil has removed since
  asyncCall,      \* ExecuteStrategiesAsync: how many calls were made, where
                  \* the goroutine of the last is, and its snapshot of names
  asyncPending,   \* the producer goroutines of that call not yet returned
  asyncChan,      \* the results buffered in its resultChan
  asyncReceived,  \* the results the consumer has received from it
  wsReconnect,    \* WebSocketClient.reconnect
  wsCtxDone,      \* WebSocketClient.ctx is cancelled
  wsConn,         \* WebSocketClient.conn: "nil", "open" or "closed"
  wsLoops,        \* where each goroutine connectionLoop is, in the order
                  \* in which Start started them
  wsDelivered     \* how many messages messageLoop gave to handleMessage

strategyVars == <<params, kline15MData, kline4HData>>
emaVars == <<emaCall, emaResult, tunnelCall, tunnelResult>>
signalVars == <<ema15M, ema4H, lastCall, lastSignal, emaVars>>
storeVars == <<fed15M, fed4H>>
pipeVars == <<strategies, goroutines, lastMsg, handlerRet, evalLog>>
shutdownVars == <<smMu, smCtxDone, stopPc, monitorPc>>
botVars == <<botRunning, botProcessors, botQueue, botSent, botUpdate>>
\* the services beside the market data path
executorVars == <<teRunning, teCtxDone, teTasks, teOrders, teCall>>
\* the services that work in the background of the bot
notifyVars == <<nmRunning, nmCtxDone, nmClosed, nmQueue, nmWorkers,
                nmProcessed, nmSend, nmStarts, nmPanic>>
managerVars == <<stmRunning, stmCtxDone, stmInstance, regCall, regLive,
                 asyncCall, asyncPending, asyncChan, asyncReceived>>
clientVars == <<wsReconnect, wsCtxDone, wsConn, wsLoops, wsDelivered>>
backgroundVars == <<executorVars, notifyVars, managerVars, clientVars>>
serviceVars == <<botVars, backgroundVars>>
streamVars == <<smRunning, smSubscriptions, wsStreams, wsHandlers,
                wsConnStreams, wsRunning, panicked, dispatch, shutdownVars,
                serviceVars>>
vars == <<strategyVars, signalVars, storeVars, pipeVars, streamVars>>
\* the market data path without the services
marketVars == <<smRunning, smSubscriptions, wsStreams, wsHandlers,
                wsConnStreams, wsRunning, panicked, dispatch, shutdownVars>>
\* everything but the variables of the TradeExecutor
outsideExecutor == <<strategyVars, signalVars, storeVars, pipeVars,
                     marketVars, botVars, notifyVars, managerVars,
                     clientVars>>
\* everything but the variables of the NotificationManager
outsideNotify == <<strategyVars, signalVars, storeVars, pipeVars,
                   marketVars, botVars, executorVars, managerVars,
                   clientVars>>
\* everything but the variables of the StrategyManager
outsideManager == <<strategyVars, signalVars, storeVars, goroutines, lastMsg,
                    handlerRet, evalLog, marketVars, botVars, executorVars,
                    notifyVars, clientVars>>
\* everything but the variables of the WebSocketClient's connection
outsideClient == <<strategyVars, signalVars, storeVars, pipeVars, smRunning,
                   smSubscriptions, wsConnStreams, panicked, dispatch,
                   shutdownVars, botVars, executorVars, notifyVars,
                   managerVars>>

(***************************************************************************)
(* Decimals                                                                *)
(***************************************************************************)
\* decimal.NewFromInt(n)
Dec(n) == n * 1000

\* Decimal.Mul: exact for the operands of this model (see the header)
Mul(a, b) == (a * b) \div 1000

Min(a, b) == IF a < b THEN a ELSE b

(***************************************************************************)
(* Types of the strategy package                                           *)
(***************************************************************************)
TrendNone == "TrendNone"
TrendBullish == "TrendBullish"
TrendBearish == "TrendBearish"
TrendSideways == "TrendSideways"

SignalNone == "SignalNone"
SignalBuy == "SignalBuy"
SignalSell == "SignalSell"
SignalStopLoss == "SignalStopLoss"
SignalTakeProfit == "SignalTakeProfit"

\* a nil *TradingSignal, and a nil []TunnelData
NilSignal == [Type |-> "nil"]
NilTunnel == [TrendDirection |-> "nil"]

\* no indicator values: the series is too short for CalculateTunnelData
NoEma == <<>>

KlineData(symbol, open, high, low, close, volume, ts) ==
  [Symbol |-> symbol, Open |-> open, High |-> high, Low |-> low,
   Close |-> close, Volume |-> volume, Timestamp |-> ts]

\* NewVegasTunnelStrategy: the defaults
DefaultParams ==
  [shortEMAPeriod |-> 12, midTunnel1Period |-> 144, midTunnel2Period |-> 169,
   longTunnel1Period |-> 288, longTunnel2Period |-> 338,
   riskRewardRatio |-> 2000, stopLossPercent |-> 20, takeProfitPercent |-> 40]

(***************************************************************************)
(* VegasTunnelStrategy                                                     *)
(***************************************************************************)
Cap15M == 1000
Cap4H == 500

\* Faulty variants of UpdateKlineData: one that never evicts, one that
\* drops the bar just appended instead of the oldest.
UpdateKlineDataNoEvict(s, kline, timeframe) ==
  CASE timeframe = "15m" -> [s EXCEPT !.k15 = Append(s.k15, kline)]
    [] timeframe = "4h" -> [s EXCEPT !.k4 = Append(s.k4, kline)]
    [] OTHER -> s

UpdateKlineDataDropNewest(s, kline, timeframe) ==
  CASE timeframe = "15m" ->
         LET a == Append(s.k15, kline)
         IN  [s EXCEPT !.k15 = IF Len(a) > Cap15M
                                THEN SubSeq(a, 1, Cap15M) ELSE a]
    [] timeframe = "4h" ->
         LET a == Append(s.k4, kline)
         IN  [s EXCEPT !.k4 = IF Len(a) > Cap4H
                               THEN SubSeq(a, 1, Cap4H) ELSE a]
    [] OTHER -> s

\* UpdateKlineData: the switch on the timeframe string; any other string
\* falls through the switch and changes nothing.  s = [k15, k4].
UpdateKlineData(s, kline, timeframe) ==
  CASE timeframe = "15m" ->
         LET a == Append(s.k15, kline)
         IN  [s EXCEPT !.k15 = IF Len(a) > Cap15M THEN Tail(a) ELSE a]
    [] timeframe = "4h" ->
         LET a == Append(s.k4, kline)
         IN  [s EXCEPT !.k4 = IF Len(a) > Cap4H THEN Tail(a) ELSE a]
    [] OTHER -> s

\* CalculateEMA returns nil when the series is shorter than the period
CalculateEMAIsNil(n, period) == n < period

(***************************************************************************)
(* CalculateEMA over decimal.Decimal: value = coef * 10^(-exp).  Add, Sub  *)
(* and Mul are exact; Div rounds the quotient, half away from zero, to     *)
(* decimal.DivisionPrecision digits after the point.  The library has 16   *)
(* digits there; the model has DivisionPrecision digits.                   *)
(***************************************************************************)
DivisionPrecision == 3

RECURSIVE Pow10(_)
Pow10(n) == IF n = 0 THEN 1 ELSE 10 * Pow10(n - 1)

Decimal(coef, exp) == [coef |-> coef, exp |-> exp]
NewFromInt(n) == Decimal(n, 0)
DecimalZero == Decimal(0, 0)

\* the coefficient of d written with exp digits after the point (exp >= d.exp)
Rescale(d, exp) == d.coef * Pow10(exp - d.exp)

DecimalAdd(a, b) ==
  LET exp == IF a.exp > b.exp THEN a.exp ELSE b.exp
  IN  Decimal(Rescale(a, exp) + Rescale(b, exp), exp)

DecimalSub(a, b) ==
  LET exp == IF a.exp > b.exp THEN a.exp ELSE b.exp
  IN  Decimal(Rescale(a, exp) - Rescale(b, exp), exp)

DecimalMul(a, b) == Decimal(a.coef * b.coef, a.exp + b.exp)

\* Decimal.Equal: equal values, whatever the exponents
DecimalEqual(a, b) ==
  LET exp == IF a.exp > b.exp THEN a.exp ELSE b.exp
  IN  Rescale(a, exp) = Rescale(b, exp)

\* Faulty variant of Div: the digits past DivisionPrecision are cut off.
DecimalDivTruncate(a, b) ==
  Decimal((a.coef * Pow10(b.exp + DivisionPrecision))
             \div (b.coef * Pow10(a.exp)), DivisionPrecision)

\* Decimal.Div for a >= 0, b > 0: DivRound(b, DivisionPrecision)
DecimalDiv(a, b) ==
  LET num == a.coef * Pow10(b.exp + DivisionPrecision)
      den == b.coef * Pow10(a.exp)
  IN  Decimal((2 * num + den) \div (2 * den), DivisionPrecision)

\* digits after the point that decimal.NewFromFloat keeps of a float64
\* quotient with no exact decimal: about 16 in the program
AlphaDigits == 1

\* the quotient 2 / n rounded to AlphaDigits digits after the point
RoundedQuotient(n) ==
  Decimal((2 * 2 * Pow10(AlphaDigits) + n) \div (2 * n), AlphaDigits)

\* Faulty variant of Alpha: 2 / period
AlphaOverPeriod(period) == RoundedQuotient(period)

\* decimal.NewFromFloat(2.0 / float64(period+1)): 1, 0.5 and 0.4 for the
\* periods whose quotient a float64 prints exactly, the quotient cut to the
\* digits of the float64 for the others
Alpha(period) ==
  CASE period = 1 -> Decimal(1, 0)
    [] period = 3 -> Decimal(5, 1)
    [] period = 4 -> Decimal(4, 1)
    [] OTHER -> RoundedQuotient(period + 1)

\* a []decimal.Decimal, or nil
NilSlice == [isNil |-> TRUE, values |-> <<>>]
Slice(values) == [isNil |-> FALSE, values |-> values]

\* sum.Add(prices[i]) for i < n
RECURSIVE SumPrices(_, _)
SumPrices(prices, n) ==
  IF n = 0 THEN DecimalZero
  ELSE DecimalAdd(SumPrices(prices, n - 1), prices[n])

\* result[i] of CalculateEMA, i counted from 1: the zero value below the
\* period, the SMA at the period, the recursion after it
RECURSIVE EMAAt(_, _, _)
EMAAt(prices, period, i) ==
  IF i < period THEN DecimalZero
  ELSE IF i = period
       THEN DecimalDiv(SumPrices(prices, period), NewFromInt(period))
  ELSE LET alpha == Alpha(period)
           one == NewFromInt(1)
       IN  DecimalAdd(DecimalMul(prices[i], alpha),
                      DecimalMul(EMAAt(prices, period, i - 1),
                                 DecimalSub(one, alpha)))

\* Faulty variant of CalculateEMA: one price too few is let through, and
\* the slice comes back with its zero values.
CalculateEMAOffByOne(prices, period) ==
  IF Len(prices) < period - 1 THEN NilSlice
  ELSE IF Len(prices) < period
       THEN Slice([i \in 1..Len(prices) |-> DecimalZero])
  ELSE Slice([i \in 1..Len(prices) |-> EMAAt(prices, period, i)])

\* CalculateEMA(prices, period) for period >= 1
CalculateEMA(prices, period) ==
  IF Len(prices) < period THEN NilSlice
  ELSE Slice([i \in 1..Len(prices) |-> EMAAt(prices, period, i)])

\* Faulty variant of determineTrendDirection: touching bands count as
\* separated.
determineTrendDirectionLoose(tunnel) ==
  IF tunnel.MidTunnelLower >= tunnel.LongTunnelUpper THEN TrendBullish
  ELSE IF tunnel.MidTunnelUpper <= tunnel.LongTunnelLower THEN TrendBearish
  ELSE TrendSideways

determineTrendDirection(tunnel) ==
  IF tunnel.MidTunnelLower > tunnel.LongTunnelUpper THEN TrendBullish
  ELSE IF tunnel.MidTunnelUpper < tunnel.LongTunnelLower THEN TrendBearish
  ELSE TrendSideways

\* Faulty variant of TunnelEntry: the bounds of a band are its two EMAs in
\* the order of the periods, not the greater and the smaller.
TunnelEntryUnordered(e) ==
  LET t == [EMA12 |-> e[1], EMA144 |-> e[2], EMA169 |-> e[3],
            EMA288 |-> e[4], EMA338 |-> e[5],
            MidTunnelUpper |-> e[2], MidTunnelLower |-> e[3],
            LongTunnelUpper |-> e[4], LongTunnelLower |-> e[5],
            TrendDirection |-> TrendNone]
  IN  [t EXCEPT !.TrendDirection = determineTrendDirection(t)]

\* One entry of CalculateTunnelData's result: the two bands and the trend,
\* from the five EMA values e = <<ema12, ema144, ema169, ema288, ema338>>.
TunnelEntry(e) ==
  LET t == [EMA12 |-> e[1], EMA144 |-> e[2], EMA169 |-> e[3],
            EMA288 |-> e[4], EMA338 |-> e[5],
            MidTunnelUpper |-> IF e[2] > e[3] THEN e[2] ELSE e[3],
            MidTunnelLower |-> IF e[2] > e[3] THEN e[3] ELSE e[2],
            LongTunnelUpper |-> IF e[4] > e[5] THEN e[4] ELSE e[5],
            LongTunnelLower |-> IF e[4] > e[5] THEN e[5] ELSE e[4],
            TrendDirection |-> TrendNone]
  IN  [t EXCEPT !.TrendDirection = determineTrendDirection(t)]

\* CalculateTunnelData, as far as its callers read it: nil, or the entry at
\* the last index.  e holds CalculateEMA's values at that index.
CalculateTunnelData(klines, p, e) ==
  IF Len(klines) < p.longTunnel2Period THEN NilTunnel
  ELSE IF \/ CalculateEMAIsNil(Len(klines), p.shortEMAPeriod)
          \/ CalculateEMAIsNil(Len(klines), p.midTunnel1Period)
          \/ CalculateEMAIsNil(Len(klines), p.midTunnel2Period)
          \/ CalculateEMAIsNil(Len(klines), p.longTunnel1Period)
          \/ CalculateEMAIsNil(Len(klines), p.longTunnel2Period)
       THEN NilTunnel
  ELSE TunnelEntry(e)

\* Faulty variant of isPriceNearTunnel: no tolerance around the bands.
isPriceNearTunnelExact(price, tunnel, isLong) ==
  \/ price >= tunnel.MidTunnelLower /\ price <= tunnel.MidTunnelUpper
  \/ price >= tunnel.LongTunnelLower /\ price <= tunnel.LongTunnelUpper

\* Faulty variant of isPriceNearTunnel: the tolerance bounds the price on
\* the side of the band's lower bound only.
isPriceNearTunnelOneSided(price, tunnel, isLong) ==
  \/ price >= Mul(tunnel.MidTunnelLower, Dec(1) - 2)
  \/ price >= Mul(tunnel.LongTunnelLower, Dec(1) - 2)

isPriceNearTunnel(price, tunnel, isLong) ==
  LET tolerance == 2
      one == Dec(1)
  IN  IF isLong
      THEN \/ /\ price >= Mul(tunnel.MidTunnelLower, one - tolerance)
              /\ price <= Mul(tunnel.MidTunnelUpper, one + tolerance)
           \/ /\ price >= Mul(tunnel.LongTunnelLower, one - tolerance)
              /\ price <= Mul(tunnel.LongTunnelUpper, one + tolerance)
      ELSE \/ /\ price >= Mul(tunnel.MidTunnelLower, one - tolerance)
              /\ price <= Mul(tunnel.MidTunnelUpper, one + tolerance)
           \/ /\ price >= Mul(tunnel.LongTunnelLower, one - tolerance)
              /\ price <= Mul(tunnel.LongTunnelUpper, one + tolerance)

\* Faulty variant of calculateSignalConfidence: the trend bonus is taken
\* from the separation of the 15M tunnel, not of the 4H tunnel.
calculateSignalConfidenceFastTrend(tunnel4H, tunnel15M, isLong) ==
  LET base == 60
      trend == IF isLong
               THEN IF tunnel15M.MidTunnelLower > tunnel15M.LongTunnelUpper
                    THEN 20 ELSE 0
               ELSE IF tunnel15M.MidTunnelUpper < tunnel15M.LongTunnelLower
                    THEN 20 ELSE 0
      momentum == IF isLong
                  THEN IF tunnel15M.EMA12 > tunnel15M.MidTunnelLower
                       THEN 10 ELSE 0
                  ELSE IF tunnel15M.EMA12 < tunnel15M.MidTunnelUpper
                       THEN 10 ELSE 0
  IN  Min(base + trend + momentum, 100)

\* Faulty variant of calculateSignalConfidence: the EMA12 bonus is given
\* whatever the side of EMA12.
calculateSignalConfidenceAlwaysMomentum(tunnel4H, tunnel15M, isLong) ==
  LET base == 60
      trend == IF isLong
               THEN IF tunnel4H.MidTunnelLower > tunnel4H.LongTunnelUpper
                    THEN 20 ELSE 0
               ELSE IF tunnel4H.MidTunnelUpper < tunnel4H.LongTunnelLower
                    THEN 20 ELSE 0
  IN  Min(base + trend + 10, 100)

\* calculateSignalConfidence, in hundredths (0.6 + 0.2 + 0.1 are exact
\* to the printed digit in float64)
calculateSignalConfidence(tunnel4H, tunnel15M, isLong) ==
  LET base == 60
      trend == IF isLong
               THEN IF tunnel4H.MidTunnelLower > tunnel4H.LongTunnelUpper
                    THEN 20 ELSE 0
               ELSE IF tunnel4H.MidTunnelUpper < tunnel4H.LongTunnelLower
                    THEN 20 ELSE 0
      momentum == IF isLong
                  THEN IF tunnel15M.EMA12 > tunnel15M.MidTunnelLower
                       THEN 10 ELSE 0
                  ELSE IF tunnel15M.EMA12 < tunnel15M.MidTunnelUpper
                       THEN 10 ELSE 0
  IN  Min(base + trend + momentum, 100)

\* Faulty variant of calculateStopLossAndTakeProfit: the risk amount is
\* measured from the stop level, before the 0.2% buffer.
calculateStopLossAndTakeProfitFromLevel(signal, tunnel, isLong, p) ==
  IF isLong
  THEN LET stopLossLevel ==
             IF tunnel.LongTunnelUpper < tunnel.MidTunnelLower
             THEN tunnel.LongTunnelUpper ELSE tunnel.MidTunnelLower
           riskAmount == signal.Price - stopLossLevel
       IN  [signal EXCEPT !.StopLoss = Mul(stopLossLevel, 998),
              !.TakeProfit = signal.Price + Mul(riskAmount, p.riskRewardRatio)]
  ELSE LET stopLossLevel ==
             IF tunnel.LongTunnelLower > tunnel.MidTunnelUpper
             THEN tunnel.LongTunnelLower ELSE tunnel.MidTunnelUpper
           riskAmount == stopLossLevel - signal.Price
       IN  [signal EXCEPT !.StopLoss = Mul(stopLossLevel, 1002),
              !.TakeProfit = signal.Price - Mul(riskAmount, p.riskRewardRatio)]

calculateStopLossAndTakeProfit(signal, tunnel, isLong, p) ==
  IF isLong
  THEN LET stopLossLevel ==
             IF tunnel.LongTunnelUpper < tunnel.MidTunnelLower
             THEN tunnel.LongTunnelUpper ELSE tunnel.MidTunnelLower
           stopLoss == Mul(stopLossLevel, 998)
           riskAmount == signal.Price - stopLoss
       IN  [signal EXCEPT !.StopLoss = stopLoss,
              !.TakeProfit = signal.Price + Mul(riskAmount, p.riskRewardRatio)]
  ELSE LET stopLossLevel ==
             IF tunnel.LongTunnelLower > tunnel.MidTunnelUpper
             THEN tunnel.LongTunnelLower ELSE tunnel.MidTunnelUpper
           stopLoss == Mul(stopLossLevel, 1002)
           riskAmount == stopLoss - signal.Price
       IN  [signal EXCEPT !.StopLoss = stopLoss,
              !.TakeProfit = signal.Price - Mul(riskAmount, p.riskRewardRatio)]

TradingSignal(symbol, type, price, confidence, ts) ==
  [Symbol |-> symbol, Type |-> type, Price |-> price, StopLoss |-> 0,
   TakeProfit |-> 0, Confidence |-> confidence, Timestamp |-> ts,
   Timeframe |-> "15M"]

\* Faulty variant of checkLongSignal: the 4H trend is not looked at.
checkLongSignalAnyTrend(tunnel4H, tunnel15M, kline, symbol, p) ==
  IF kline.Close <= tunnel4H.MidTunnelLower THEN NilSignal
  ELSE IF ~isPriceNearTunnel(kline.Close, tunnel15M, TRUE) THEN NilSignal
  ELSE IF kline.Close <= tunnel15M.EMA12 THEN NilSignal
  ELSE calculateStopLossAndTakeProfit(
         TradingSignal(symbol, SignalBuy, kline.Close,
                       calculateSignalConfidence(tunnel4H, tunnel15M, TRUE),
                       kline.Timestamp),
         tunnel15M, TRUE, p)

checkLongSignal(tunnel4H, tunnel15M, kline, symbol, p) ==
  IF tunnel4H.TrendDirection # TrendBullish THEN NilSignal
  ELSE IF kline.Close <= tunnel4H.MidTunnelLower THEN NilSignal
  ELSE IF ~isPriceNearTunnel(kline.Close, tunnel15M, TRUE) THEN NilSignal
  ELSE IF kline.Close <= tunnel15M.EMA12 THEN NilSignal
  ELSE calculateStopLossAndTakeProfit(
         TradingSignal(symbol, SignalBuy, kline.Close,
                       calculateSignalConfidence(tunnel4H, tunnel15M, TRUE),
                       kline.Timestamp),
         tunnel15M, TRUE, p)

\* Faulty variant of checkShortSignal: a close equal to EMA12 passes.
checkShortSignalAtEMA12(tunnel4H, tunnel15M, kline, symbol, p) ==
  IF tunnel4H.TrendDirection # TrendBearish THEN NilSignal
  ELSE IF kline.Close >= tunnel4H.MidTunnelUpper THEN NilSignal
  ELSE IF ~isPriceNearTunnel(kline.Close, tunnel15M, FALSE) THEN NilSignal
  ELSE IF kline.Close > tunnel15M.EMA12 THEN NilSignal
  ELSE calculateStopLossAndTakeProfit(
         TradingSignal(symbol, SignalSell, kline.Close,
                       calculateSignalConfidence(tunnel4H, tunnel15M, FALSE),
                       kline.Timestamp),
         tunnel15M, FALSE, p)

checkShortSignal(tunnel4H, tunnel15M, kline, symbol, p) ==
  IF tunnel4H.TrendDirection # TrendBearish THEN NilSignal
  ELSE IF kline.Close >= tunnel4H.MidTunnelUpper THEN NilSignal
  ELSE IF ~isPriceNearTunnel(kline.Close, tunnel15M, FALSE) THEN NilSignal
  ELSE IF kline.Close >= tunnel15M.EMA12 THEN NilSignal
  ELSE calculateStopLossAndTakeProfit(
         TradingSignal(symbol, SignalSell, kline.Close,
                       calculateSignalConfidence(tunnel4H, tunnel15M, FALSE),
                       kline.Timestamp),
         tunnel15M, FALSE, p)

\* GenerateSignal, first half: every input bar goes through
\* UpdateKlineData(kline, "15M")
RECURSIVE GenerateSignalUpdate(_, _)
GenerateSignalUpdate(s, klines) ==
  IF klines = <<>> THEN s
  ELSE GenerateSignalUpdate(UpdateKlineData(s, Head(klines), "15M"),
                            Tail(klines))

\* GenerateSignal, second half: the decision on the updated series s
\* Faulty variant of GenerateSignal: with too few 4H bars it goes on with the
\* 15M tunnel in place of the 4H tunnel instead of returning nil.
GenerateSignalResultFallback(s, klines, p, e15, e4) ==
  IF Len(klines) = 0 THEN NilSignal
  ELSE IF Len(s.k15) < p.longTunnel2Period THEN NilSignal
  ELSE LET symbol == klines[1].Symbol
           current15M == CalculateTunnelData(s.k15, p, e15)
           current4H == IF Len(s.k4) < p.longTunnel2Period THEN current15M
                        ELSE CalculateTunnelData(s.k4, p, e4)
           currentKline == s.k15[Len(s.k15)]
       IN  IF current4H = NilTunnel THEN NilSignal
           ELSE IF current15M = NilTunnel THEN NilSignal
           ELSE LET long == checkLongSignal(current4H, current15M,
                                            currentKline, symbol, p)
                IN  IF long # NilSignal THEN long
                    ELSE checkShortSignal(current4H, current15M,
                                          currentKline, symbol, p)

GenerateSignalResult(s, klines, p, e15, e4) ==
  IF Len(klines) = 0 THEN NilSignal
  ELSE IF Len(s.k15) < p.longTunnel2Period THEN NilSignal
  ELSE IF Len(s.k4) < p.longTunnel2Period THEN NilSignal
  ELSE LET symbol == klines[1].Symbol
           current4H == CalculateTunnelData(s.k4, p, e4)
           current15M == CalculateTunnelData(s.k15, p, e15)
           currentKline == s.k15[Len(s.k15)]
       IN  IF current4H = NilTunnel THEN NilSignal
           ELSE IF current15M = NilTunnel THEN NilSignal
           ELSE LET long == checkLongSignal(current4H, current15M,
                                            currentKline, symbol, p)
                IN  IF long # NilSignal THEN long
                    ELSE checkShortSignal(current4H, current15M,
                                          currentKline, symbol, p)

\* Faulty variant of CheckEMA12Exit: a close on the EMA exits too.
CheckEMA12ExitOnTouch(s, symbol, isLong, p, e15) ==
  IF Len(s.k15) < 2 THEN NilSignal
  ELSE LET currentTunnel == CalculateTunnelData(s.k15, p, e15)
           currentKline == s.k15[Len(s.k15)]
           shouldExit == IF isLong
                         THEN currentKline.Close <= currentTunnel.EMA12
                         ELSE currentKline.Close >= currentTunnel.EMA12
       IN  IF currentTunnel = NilTunnel THEN NilSignal
           ELSE IF ~shouldExit THEN NilSignal
           ELSE TradingSignal(symbol, SignalTakeProfit, currentKline.Close,
                              90, currentKline.Timestamp)

CheckEMA12Exit(s, symbol, isLong, p, e15) ==
  IF Len(s.k15) < 2 THEN NilSignal
  ELSE LET currentTunnel == CalculateTunnelData(s.k15, p, e15)
           currentKline == s.k15[Len(s.k15)]
           shouldExit == IF isLong
                         THEN currentKline.Close < currentTunnel.EMA12
                         ELSE currentKline.Close > currentTunnel.EMA12
       IN  IF currentTunnel = NilTunnel THEN NilSignal
           ELSE IF ~shouldExit THEN NilSignal
           ELSE TradingSignal(symbol, SignalTakeProfit, currentKline.Close,
                              90, currentKline.Timestamp)

\* ValidateParameters: nil (TRUE) or an error (FALSE).  The percents are
\* in thousandths, as riskRewardRatio is.
ValidateParameters(p) ==
  /\ p.shortEMAPeriod > 0
  /\ ~(p.midTunnel1Period <= p.shortEMAPeriod
        \/ p.midTunnel2Period <= p.shortEMAPeriod)
  /\ ~(p.longTunnel1Period <= p.midTunnel2Period
        \/ p.longTunnel2Period <= p.midTunnel2Period)
  /\ ~(p.stopLossPercent <= 0 \/ p.stopLossPercent > 100)
  /\ ~(p.takeProfitPercent <= 0 \/ p.takeProfitPercent > 200)
  /\ ~(p.riskRewardRatio <= 1000)

(***************************************************************************)
(* StrategyManager and StrategyHandler                                     *)
(***************************************************************************)
\* ValidateKlineData: nil (TRUE) or an error (FALSE)
ValidateKlineData(klines) ==
  /\ Len(klines) # 0
  /\ \A i \in 1..Len(klines) :
        LET kline == klines[i]
        IN  /\ ~(kline.Open = 0 \/ kline.High = 0 \/ kline.Low = 0
                  \/ kline.Close = 0)
            /\ ~(kline.High < kline.Low)
            /\ ~(kline.High < kline.Open \/ kline.High < kline.Close)
            /\ ~(kline.Low > kline.Open \/ kline.Low > kline.Close)

\* the members of a set in one of the orders a map range may visit them
RECURSIVE InSomeOrder(_)
InSomeOrder(S) ==
  IF S = {} THEN <<>>
  ELSE LET x == CHOOSE x \in S : TRUE
       IN  <<x>> \o InSomeOrder(S \ {x})

\* ProcessKlineData: an error for a bar ValidateKlineData refuses, else one
\* goroutine per registered strategy; gs are the goroutines not yet finished.
\* A goroutine is at "go" until it is scheduled, then inside GenerateSignal.
ProcessKlineData(gs, registered, klineData) ==
  IF ~ValidateKlineData(<<klineData>>)
  THEN [err |-> TRUE, goroutines |-> gs]
  ELSE [err |-> FALSE,
        goroutines |->
          gs \o InSomeOrder({ [strategyName |-> name, data |-> klineData,
                                pc |-> "go"] : name \in registered })]

\* decimal.NewFromString with its error dropped: text that is no number
\* gives the zero Decimal
NewFromString(str) ==
  CASE str = "499" -> Dec(499)
    [] str = "500" -> Dec(500)
    [] str = "501" -> Dec(501)
    [] str = "502" -> Dec(502)
    [] str = "1" -> Dec(1)
    [] str = "-1" -> Dec(-1)
    [] str = "-498" -> Dec(-498)
    [] str = "-499" -> Dec(-499)
    [] str = "-500" -> Dec(-500)
    [] str = "-501" -> Dec(-501)
    [] OTHER -> 0

\* binance.KlineStreamData, the fields the handlers read
KlineStreamData(stream, symbol, startTime, open, high, low, close, volume, isClosed) ==
  [Stream |-> stream, Symbol |-> symbol, StartTime |-> startTime,
   Open |-> open, High |-> high, Low |-> low, Close |-> close,
   Volume |-> volume, IsClosed |-> isClosed]

\* the bar StrategyHandler.HandleKlineData converts a message to
ToKlineData(data) ==
  KlineData(data.Symbol, NewFromString(data.Open), NewFromString(data.High),
            NewFromString(data.Low), NewFromString(data.Close),
            NewFromString(data.Volume), data.StartTime \div 1000)

\* Faulty variant of HandleKlineData: the bar is processed closed or not.
HandleKlineDataAnyBar(gs, registered, data) ==
  LET r == ProcessKlineData(gs, registered, ToKlineData(data))
  IN  [ret |-> IF r.err THEN "error" ELSE "nil", goroutines |-> r.goroutines]

\* StrategyHandler.HandleKlineData for a non-nil message: what it returns
\* and the goroutines pending after it
HandleKlineData(gs, registered, data) ==
  IF ~data.IsClosed THEN [ret |-> "nil", goroutines |-> gs]
  ELSE LET r == ProcessKlineData(gs, registered, ToKlineData(data))
       IN  [ret |-> IF r.err THEN "error" ELSE "nil",
            goroutines |-> r.goroutines]

(***************************************************************************)
(* WebSocketClient: ws = [streams, handlers]                               *)
(***************************************************************************)
NilHandler == "nil"
StrategyHandler == "StrategyHandler"

\* strings.ToLower on the symbols of the model
ToLower(symbol) ==
  CASE symbol = "BTCUSDT" -> "btcusdt"
    [] symbol = "ETHUSDT" -> "ethusdt"
    [] OTHER -> symbol

\* fmt.Sprintf("%s@kline_%s", ..) and fmt.Sprintf("%s@ticker", ..): a stream
\* name is kept as the tuple of its parts
KlineStreamName(symbol, interval) == <<ToLower(symbol), "@kline_", interval>>
TickerStreamName(symbol) == <<ToLower(symbol), "@ticker">>

Range(seq) == { seq[i] : i \in 1..Len(seq) }

\* m[k] = v on a map
MapPut(m, k, v) == [x \in DOMAIN m \cup {k} |-> IF x = k THEN v ELSE m[x]]

\* delete(m, k)
MapDelete(m, k) == [x \in DOMAIN m \ {k} |-> m[x]]

\* the loop that removes the first occurrence of stream from ws.streams
RemoveFirst(streams, stream) ==
  IF stream \notin Range(streams) THEN streams
  ELSE LET i == CHOOSE i \in 1..Len(streams) :
                  /\ streams[i] = stream
                  /\ \A j \in 1..(i - 1) : streams[j] # stream
       IN  SubSeq(streams, 1, i - 1) \o SubSeq(streams, i + 1, Len(streams))

\* WebSocketClient.Subscribe(stream, handler)
Subscribe(ws, stream, handler) ==
  [streams |-> Append(ws.streams, stream),
   handlers |-> MapPut(ws.handlers, stream, handler)]

\* SetStreamHandler: the handler goes to the streams listed at this moment
SetStreamHandler(ws, handler) ==
  [ws EXCEPT !.handlers =
     [x \in DOMAIN ws.handlers \cup Range(ws.streams) |->
        IF x \in Range(ws.streams) THEN handler ELSE ws.handlers[x]]]

SubscribeKline(ws, symbol, interval) ==
  Subscribe(ws, KlineStreamName(symbol, interval), NilHandler)

SubscribeTicker(ws, symbol) ==
  Subscribe(ws, TickerStreamName(symbol), NilHandler)

UnsubscribeKline(ws, symbol, interval) ==
  [streams |-> RemoveFirst(ws.streams, KlineStreamName(symbol, interval)),
   handlers |-> MapDelete(ws.handlers, KlineStreamName(symbol, interval))]

UnsubscribeTicker(ws, symbol) ==
  [streams |-> RemoveFirst(ws.streams, TickerStreamName(symbol)),
   handlers |-> MapDelete(ws.handlers, TickerStreamName(symbol))]

\* handleMessage, up to the handler call: which handler method is called,
\* "no handler" when the message is dropped, "panic" when the handler found
\* is nil.  No stream name of the model is part of another, so the search
\* for a partly matching name finds nothing the exact lookup did not.
handleMessage(ws, stream) ==
  IF stream \notin DOMAIN ws.handlers THEN "no handler"
  ELSE IF stream[2] = "@kline_"
       THEN IF ws.handlers[stream] = NilHandler THEN "panic"
            ELSE "HandleKlineData"
  ELSE IF stream[2] = "@ticker"
       THEN IF ws.handlers[stream] = NilHandler THEN "panic"
            ELSE "HandleTickerData"
  ELSE "ignored"

(***************************************************************************)
(* State after construction (NewVegasTunnelStrategy, NewStrategyManager,   *)
(* stream.New, NewWebSocketClient)                                         *)
(***************************************************************************)
StrategyInit ==
  /\ params = DefaultParams
  /\ kline15MData = <<>>
  /\ kline4HData = <<>>

\* no call of CalculateEMA under way
EmaIdle ==
  /\ emaCall = [made |-> FALSE, prices |-> <<>>, period |-> 1]
  /\ emaResult = NilSlice
  /\ tunnelCall = [made |-> FALSE, prices |-> <<>>]
  /\ tunnelResult = NilSlice

SignalIdle ==
  /\ ema15M = NoEma
  /\ ema4H = NoEma
  /\ lastCall = [op |-> "none"]
  /\ lastSignal = NilSignal
  /\ EmaIdle

StoreIdle ==
  /\ fed15M = <<>>
  /\ fed4H = <<>>

\* before any message
NoMessage == KlineStreamData(<<>>, "", 0, "", "", "", "", "", FALSE)

PipeIdle ==
  /\ strategies = {}
  /\ goroutines = <<>>
  /\ lastMsg = [n |-> 0, data |-> NoMessage]
  /\ handlerRet = "none"
  /\ evalLog = <<>>

\* the update handleUpdate has not been given yet
NoUpdate == [n |-> 0, chat |-> 0, kind |-> "none", command |-> "",
             handler |-> "none"]

\* telegram.New: not running, nothing queued
BotIdle ==
  /\ botRunning = FALSE
  /\ botProcessors = FALSE
  /\ botQueue = <<>>
  /\ botSent = <<>>
  /\ botUpdate = NoUpdate

\* no ExecuteTrade call made yet
NoTradeCall ==
  [n |-> 0, config |-> "none", signal |-> [Type |-> "nil"], quantity |-> 0,
   outcome |-> "none", Success |-> FALSE, Error |-> FALSE, placed |-> 0]

\* NewTradeExecutor: not running, the context live, nothing placed
ExecutorIdle ==
  /\ teRunning = FALSE
  /\ teCtxDone = FALSE
  /\ teTasks = <<>>
  /\ teOrders = <<>>
  /\ teCall = NoTradeCall

MaxNotes == 3

\* notifications.New: not running, the context live, the queue open and
\* empty, no worker
NotifyIdle ==
  /\ nmRunning = FALSE
  /\ nmCtxDone = FALSE
  /\ nmClosed = FALSE
  /\ nmQueue = <<>>
  /\ nmWorkers = 0
  /\ nmProcessed = [id \in 1..MaxNotes |-> 0]
  /\ nmSend = [n |-> 0, pending |-> 0, accepted |-> {}]
  /\ nmStarts = 0
  /\ nmPanic = "none"

\* no registry call made yet
NoRegistryCall ==
  [op |-> "none", name |-> "", strategy |-> "", err |-> FALSE,
   found |-> "", tick |-> FALSE]

\* NewStrategyManager: not running, the context live, no strategy; no
\* ExecuteStrategiesAsync under way
ManagerIdle ==
  /\ stmRunning = FALSE
  /\ stmCtxDone = FALSE
  /\ stmInstance = <<>>
  /\ regCall = NoRegistryCall
  /\ regLive = {}
  /\ asyncCall = [n |-> 0, pc |-> "idle", names |-> {}]
  /\ asyncPending = {}
  /\ asyncChan = <<>>
  /\ asyncReceived = <<>>

\* NewWebSocketClient: reconnect true, the context live, no connection, no
\* goroutine
ClientIdle ==
  /\ wsReconnect = TRUE
  /\ wsCtxDone = FALSE
  /\ wsConn = "nil"
  /\ wsLoops = <<>>
  /\ wsDelivered = 0

BackgroundIdle == ExecutorIdle /\ NotifyIdle /\ ManagerIdle /\ ClientIdle

StreamIdle ==
  /\ smRunning = FALSE
  /\ smSubscriptions = <<>>
  /\ wsStreams = <<>>
  /\ wsHandlers = <<>>
  /\ wsConnStreams = <<>>
  /\ wsRunning = FALSE
  /\ panicked = FALSE
  /\ dispatch = [n |-> 0, stream |-> <<>>, subscribed |-> FALSE,
                  closed |-> FALSE, outcome |-> "none"]
  /\ smMu = "free"
  /\ smCtxDone = FALSE
  /\ stopPc = "idle"
  /\ monitorPc = "none"
  /\ BotIdle
  /\ BackgroundIdle

(***************************************************************************)
(* SpecSignal: GenerateSignal and CheckEMA12Exit applied to drawn inputs   *)
(***************************************************************************)
\* SetParameters(shortEMA, midTunnel1, midTunnel2, longTunnel1, longTunnel2,
\* stopLoss, takeProfit): sets the seven fields, whatever they are
SetParameters(p, shortEMA, midTunnel1, midTunnel2, longTunnel1, longTunnel2, stopLoss, takeProfit) ==
  [p EXCEPT !.shortEMAPeriod = shortEMA, !.midTunnel1Period = midTunnel1,
            !.midTunnel2Period = midTunnel2, !.longTunnel1Period = longTunnel1,
            !.longTunnel2Period = longTunnel2, !.stopLossPercent = stopLoss,
            !.takeProfitPercent = takeProfit]

\* Periods small enough to fill: one with longTunnel1 < longTunnel2 (the
\* order of the defaults), one with longTunnel1 > longTunnel2, one with
\* midTunnel1 above both long periods.  All pass ValidateParameters.
ParamChoices ==
  { SetParameters(DefaultParams, 2, 3, 4, 5, 6, 20, 40),
    SetParameters(DefaultParams, 2, 3, 4, 6, 5, 20, 40),
    SetParameters(DefaultParams, 2, 6, 4, 5, 5, 20, 40) }

SeriesLens15M == {1, 5, 6}
SeriesLens4H == {5, 6}

\* closes, and the EMA values of either timeframe, in whole price units
CloseVals == {499, 500, 501, 502}
Ema12Vals == {499, 501, 502}
Ema15MVals == {497, 500, 501, 504}
Ema4HVals == {500, 501}

\* an EMA that CalculateEMA did not produce
NilEMA == -1

\* a series of n bars whose last close is c
SeriesOf(n, c) ==
  [i \in 1..n |->
     LET x == IF i = n THEN Dec(c) ELSE Dec(500)
     IN  KlineData("BTCUSDT", x, x, x, x, Dec(1), i)]

TunnelComputable(n, p) ==
  /\ n >= p.shortEMAPeriod
  /\ n >= p.midTunnel1Period
  /\ n >= p.midTunnel2Period
  /\ n >= p.longTunnel1Period
  /\ n >= p.longTunnel2Period

\* The EMA values at the last index of a 15M series of n bars.  The four
\* tunnel EMAs are drawn only where CalculateTunnelData reads them.
Ema15MInputs(n, p) ==
  IF TunnelComputable(n, p)
  THEN { <<Dec(a), Dec(b), Dec(c), Dec(d), Dec(e)>> :
           a \in Ema12Vals, b \in Ema15MVals, c \in Ema15MVals,
           d \in Ema15MVals, e \in Ema15MVals }
  ELSE IF n >= p.shortEMAPeriod
  THEN { <<Dec(a), NilEMA, NilEMA, NilEMA, NilEMA>> : a \in Ema12Vals }
  ELSE { <<NilEMA, NilEMA, NilEMA, NilEMA, NilEMA>> }

\* The same for the 4H series, whose short EMA no code path reads.
Ema4HInputs(n, p) ==
  IF TunnelComputable(n, p)
  THEN { <<Dec(500), Dec(b), Dec(c), Dec(d), Dec(e)>> :
           b \in Ema4HVals, c \in Ema4HVals,
           d \in Ema4HVals, e \in Ema4HVals }
  ELSE { <<NilEMA, NilEMA, NilEMA, NilEMA, NilEMA>> }

InitSignal ==
  /\ params \in ParamChoices
  /\ \E n \in SeriesLens15M, c \in CloseVals :
        /\ kline15MData = SeriesOf(n, c)
        /\ ema15M \in Ema15MInputs(n, params)
  /\ \E n \in SeriesLens4H :
        /\ kline4HData = SeriesOf(n, 500)
        /\ ema4H \in Ema4HInputs(n, params)
  /\ lastCall = [op |-> "none"]
  /\ lastSignal = NilSignal
  /\ EmaIdle
  /\ StoreIdle
  /\ PipeIdle
  /\ StreamIdle

\* the bar a caller passes to GenerateSignal
InputBar == KlineData("ETHUSDT", Dec(505), Dec(505), Dec(505), Dec(505),
                      Dec(1), 7)

Series == [k15 |-> kline15MData, k4 |-> kline4HData]

\* v.GenerateSignal(klines)
GenerateSignal(klines) ==
  LET s == GenerateSignalUpdate(Series, klines)
  IN  /\ kline15MData' = s.k15
      /\ kline4HData' = s.k4
      /\ ema15M' \in IF s.k15 = kline15MData THEN {ema15M}
                     ELSE Ema15MInputs(Len(s.k15), params)
      /\ ema4H' \in IF s.k4 = kline4HData THEN {ema4H}
                    ELSE Ema4HInputs(Len(s.k4), params)
      /\ lastCall' = [op |-> "GenerateSignal", klines |-> klines,
                      before |-> Series]
      /\ lastSignal' = GenerateSignalResult(s, klines, params, ema15M', ema4H')
      /\ UNCHANGED <<params, emaVars>>

SignalGenerate ==
  /\ lastCall.op = "none"
  /\ \E klines \in {<<>>, <<InputBar>>} : GenerateSignal(klines)
  /\ UNCHANGED <<storeVars, pipeVars, streamVars>>

SignalCheckExit ==
  /\ lastCall.op = "none"
  /\ \E isLong \in BOOLEAN :
        /\ lastCall' = [op |-> "CheckEMA12Exit", isLong |-> isLong]
        /\ lastSignal' = CheckEMA12Exit(Series, "BTCUSDT", isLong, params,
                                         ema15M)
  /\ UNCHANGED <<strategyVars, ema15M, ema4H, emaVars, storeVars, pipeVars,
                 streamVars>>

NextSignal == SignalGenerate \/ SignalCheckExit

SpecSignal == InitSignal /\ [][NextSignal]_vars

(***************************************************************************)
(* The claims about the entry and exit decision (SpecSignal)               *)
(***************************************************************************)
Max(a, b) == IF a > b THEN a ELSE b

\* The bands of either timeframe, read off the EMA values, and whether the
\* tunnel state exists at all (every EMA was produced).
SlowDefined == Len(ema4H) = 5 /\ \A i \in 1..5 : ema4H[i] # NilEMA
FastDefined == Len(ema15M) = 5 /\ \A i \in 1..5 : ema15M[i] # NilEMA
SlowMidLower == Min(ema4H[2], ema4H[3])
SlowMidUpper == Max(ema4H[2], ema4H[3])
SlowLongLower == Min(ema4H[4], ema4H[5])
SlowLongUpper == Max(ema4H[4], ema4H[5])
FastShort == ema15M[1]
FastMidLower == Min(ema15M[2], ema15M[3])
FastMidUpper == Max(ema15M[2], ema15M[3])
FastLongLower == Min(ema15M[4], ema15M[5])
FastLongUpper == Max(ema15M[4], ema15M[5])
SlowBullish == SlowDefined /\ SlowMidLower > SlowLongUpper
SlowBearish == SlowDefined /\ SlowMidUpper < SlowLongLower
LastClose == kline15MData[Len(kline15MData)].Close

\* within 0.2% of the band [lo, hi]
NearBand(c, lo, hi) == 1000 * c >= 998 * lo /\ 1000 * c <= 1002 * hi
FastNear ==
  \/ NearBand(LastClose, FastMidLower, FastMidUpper)
  \/ NearBand(LastClose, FastLongLower, FastLongUpper)

EnoughBars ==
  /\ Len(kline15MData) >= params.longTunnel2Period
  /\ Len(kline4HData) >= params.longTunnel2Period

LongSetup ==
  /\ SlowBullish /\ FastDefined
  /\ LastClose > SlowMidLower
  /\ FastNear
  /\ LastClose > FastShort

ShortSetup ==
  /\ SlowBearish /\ FastDefined
  /\ LastClose < SlowMidUpper
  /\ FastNear
  /\ LastClose < FastShort

Generated == lastCall.op = "GenerateSignal"
ExitChecked == lastCall.op = "CheckEMA12Exit"

\* C1: every Buy returned by GenerateSignal has StopLoss < Price < TakeProfit
\* and every Sell has TakeProfit < Price < StopLoss.
C1_RiskLevelsOrdered ==
  Generated =>
    /\ lastSignal.Type = SignalBuy =>
          /\ lastSignal.StopLoss < lastSignal.Price
          /\ lastSignal.Price < lastSignal.TakeProfit
    /\ lastSignal.Type = SignalSell =>
          /\ lastSignal.TakeProfit < lastSignal.Price
          /\ lastSignal.Price < lastSignal.StopLoss

\* C4 as stated: with enough bars in both series and the long (short) setup
\* holding, GenerateSignal returns a Buy (Sell) priced at the latest fast
\* close, whatever it was called with.
C4_EntryWheneverSetup ==
  (Generated /\ EnoughBars) =>
    /\ LongSetup =>
          lastSignal.Type = SignalBuy /\ lastSignal.Price = LastClose
    /\ ShortSetup =>
          lastSignal.Type = SignalSell /\ lastSignal.Price = LastClose

\* C4 amended: the same for every call that passes at least one bar.
C4_EntryWhenSetupAndInput ==
  (Generated /\ lastCall.klines # <<>> /\ EnoughBars) =>
    /\ LongSetup =>
          lastSignal.Type = SignalBuy /\ lastSignal.Price = LastClose
    /\ ShortSetup =>
          lastSignal.Type = SignalSell /\ lastSignal.Price = LastClose

C4_Witness ==
  /\ Generated /\ lastCall.klines # <<>> /\ EnoughBars /\ LongSetup
  /\ lastSignal.Type = SignalBuy
  /\ ~NearBand(LastClose, FastLongLower, FastLongUpper)
  /\ LastClose > FastMidUpper

\* C5: a Buy is returned only when the slow tunnel is Bullish, a Sell only
\* when it is Bearish; with no full separation nothing is returned.
C5_TrendGatesEntry ==
  Generated =>
    /\ lastSignal.Type = SignalBuy => SlowBullish
    /\ lastSignal.Type = SignalSell => SlowBearish
    /\ (~SlowBullish /\ ~SlowBearish) => lastSignal = NilSignal

C5_Witness ==
  /\ Generated /\ lastCall.klines # <<>> /\ EnoughBars
  /\ SlowDefined /\ FastDefined
  /\ SlowMidLower = SlowLongUpper
  /\ LastClose > SlowMidLower /\ FastNear /\ LastClose > FastShort
  /\ lastSignal = NilSignal

\* what CheckEMA12Exit is to return when it exits
ExitSignal ==
  [Symbol |-> "BTCUSDT", Type |-> SignalTakeProfit, Price |-> LastClose,
   StopLoss |-> 0, TakeProfit |-> 0, Confidence |-> 90,
   Timestamp |-> kline15MData[Len(kline15MData)].Timestamp,
   Timeframe |-> "15M"]

ExitCondition ==
  /\ FastShort # NilEMA
  /\ IF lastCall.isLong THEN LastClose < FastShort
                         ELSE LastClose > FastShort

\* C6 as stated: CheckEMA12Exit returns the take-profit signal (confidence
\* 0.9, priced at the latest fast close) exactly when the fast series holds
\* longTunnel2Period bars and the close is strictly beyond the short EMA.
C6_ExitIffCrossed ==
  ExitChecked =>
    lastSignal =
      IF Len(kline15MData) >= params.longTunnel2Period /\ ExitCondition
      THEN ExitSignal ELSE NilSignal

\* C6 amended: the same with the history bound at the longest of the five
\* periods.
C6_ExitIffCrossedWithHistory ==
  ExitChecked =>
    lastSignal =
      IF /\ TunnelComputable(Len(kline15MData), params)
         /\ ExitCondition
      THEN ExitSignal ELSE NilSignal

C6_Witness ==
  /\ ExitChecked /\ ~lastCall.isLong
  /\ FastDefined /\ LastClose > FastShort
  /\ lastSignal.Type = SignalTakeProfit /\ lastSignal.Confidence = 90

\* the tunnel states of the current series
FastTunnel == CalculateTunnelData(kline15MData, params, ema15M)
SlowTunnel == CalculateTunnelData(kline4HData, params, ema4H)

\* C7: a computed tunnel state is Bullish iff its mid band lies strictly
\* above its long band, Bearish iff strictly below, Sideways otherwise.
C7_TrendIffSeparated ==
  /\ FastTunnel # NilTunnel =>
        FastTunnel.TrendDirection =
          IF FastMidLower > FastLongUpper THEN TrendBullish
          ELSE IF FastMidUpper < FastLongLower THEN TrendBearish
          ELSE TrendSideways
  /\ SlowTunnel # NilTunnel =>
        SlowTunnel.TrendDirection =
          IF SlowMidLower > SlowLongUpper THEN TrendBullish
          ELSE IF SlowMidUpper < SlowLongLower THEN TrendBearish
          ELSE TrendSideways

C7_Witness ==
  /\ ExitChecked
  /\ FastTunnel # NilTunnel /\ SlowTunnel # NilTunnel
  /\ FastMidLower = FastLongUpper /\ FastMidUpper > FastMidLower
  /\ FastTunnel.TrendDirection = TrendSideways
  /\ SlowTunnel.TrendDirection = TrendBearish

(***************************************************************************)
(* SpecStore: the two series under UpdateKlineData, with the real caps     *)
(***************************************************************************)
\* how many bars an empty series is fed, and how many a full one
MaxFresh == 2
MaxOverflow == 2

\* the bars that may come n-th: two closes, told apart by their open time
StoreBars(n) ==
  { KlineData("BTCUSDT", Dec(c), Dec(c), Dec(c), Dec(c), Dec(1), n) :
      c \in {500, 501} }

\* a bar that comes late: with the open time of the last bar kept (series of
\* even length) or the open time before it (series of odd length)
StaleBars(series) ==
  IF series = <<>> THEN {}
  ELSE { KlineData("BTCUSDT", Dec(500), Dec(500), Dec(500), Dec(500), Dec(1),
                   series[Len(series)].Timestamp - (Len(series) % 2)) }

\* the series after n direct UpdateKlineData calls, n below the cap
Filled(n) ==
  [i \in 1..n |->
     KlineData("BTCUSDT", Dec(500), Dec(500), Dec(500), Dec(500), Dec(1), i)]

\* Each series starts empty or one bar short of its cap.
InitStore ==
  /\ params = DefaultParams
  /\ \E n \in {0, Cap15M - 1} : kline15MData = Filled(n) /\ fed15M = Filled(n)
  /\ \E n \in {0, Cap4H - 1} : kline4HData = Filled(n) /\ fed4H = Filled(n)
  /\ SignalIdle
  /\ PipeIdle
  /\ StreamIdle

\* whether a series that was fed n bars is fed another
MayFeed(n, cap) == n < MaxFresh \/ (n >= cap - 1 /\ n < cap + MaxOverflow)

\* v.UpdateKlineData(kline, timeframe) called directly
StoreUpdate(kline, timeframe) ==
  LET s == UpdateKlineData(Series, kline, timeframe)
  IN  /\ kline15MData' = s.k15
      /\ kline4HData' = s.k4
      /\ fed15M' = IF timeframe = "15m" THEN Append(fed15M, kline)
                    ELSE fed15M
      /\ fed4H' = IF timeframe = "4h" THEN Append(fed4H, kline) ELSE fed4H
      /\ UNCHANGED <<params, signalVars, pipeVars, streamVars>>

StoreUpdate15m ==
  /\ MayFeed(Len(fed15M), Cap15M)
  /\ \E kline \in StoreBars(Len(fed15M) + 1) \cup StaleBars(kline15MData) :
        StoreUpdate(kline, "15m")

StoreUpdate4h ==
  /\ MayFeed(Len(fed4H), Cap4H)
  /\ \E kline \in StoreBars(Len(fed4H) + 1) \cup StaleBars(kline4HData) :
        StoreUpdate(kline, "4h")

\* a timeframe string the switch does not know
StoreUpdateOther ==
  /\ MayFeed(Len(fed15M), Cap15M)
  /\ \E kline \in StoreBars(Len(fed15M) + 1) : StoreUpdate(kline, "15M")

NextStore == StoreUpdate15m \/ StoreUpdate4h \/ StoreUpdateOther

SpecStore == InitStore /\ [][NextStore]_vars

\* C8: the 15m series never holds more than 1000 bars and the 4h series
\* never more than 500.
C8_SeriesBounded ==
  /\ Len(kline15MData) <= 1000
  /\ Len(kline4HData) <= 500

C8_Witness ==
  /\ Len(fed15M) > 1000 /\ Len(kline15MData) = 1000
  /\ Len(fed4H) > 500 /\ Len(kline4HData) = 500

\* the last min(n, cap) of the n bars fed, in the order they were fed
MostRecent(fed, cap) ==
  SubSeq(fed, Len(fed) - Min(Len(fed), cap) + 1, Len(fed))

\* C9: each series is exactly the most recent min(n, cap) bars appended to
\* it, in the order appended.
C9_FifoOrderKept ==
  /\ kline15MData = MostRecent(fed15M, 1000)
  /\ kline4HData = MostRecent(fed4H, 500)

C9_Witness ==
  /\ Len(fed15M) = 1002 /\ kline15MData[1].Timestamp = 3
  /\ kline15MData[1000].Close = Dec(501)
  /\ Len(fed4H) = 502 /\ kline4HData[500].Timestamp = 502

(***************************************************************************)
(* Spec: kline messages through StrategyHandler.HandleKlineData,           *)
(* StrategyManager.ProcessKlineData and the goroutines it starts           *)
(***************************************************************************)
\* how many kline messages the handler is given
MaxMsgs == 2

StrategyNames == {"vegas_tunnel", "vegas_tunnel_2"}

\* open, high, low, close as sent: well formed, high below low, a close
\* that is no number, and prices below zero
PriceTexts ==
  { <<"500", "502", "499", "501">>,
    <<"500", "499", "502", "501">>,
    <<"500", "502", "499", "n/a">>,
    <<"-500", "-498", "-501", "-499">> }

\* the volume as sent with well formed prices
VolumeTexts == {"1", "-1"}

\* open, high, low, close, volume of the messages
BarTexts ==
  { <<x[1], x[2], x[3], x[4], "1">> : x \in PriceTexts }
    \cup { <<"500", "502", "499", "501", v>> : v \in VolumeTexts }

Messages ==
  { KlineStreamData(KlineStreamName("BTCUSDT", "15m"), "BTCUSDT", t,
                    x[1], x[2], x[3], x[4], x[5], c) :
      t \in {900000, 1800999}, x \in BarTexts, c \in BOOLEAN }

Init ==
  /\ StrategyInit
  /\ SignalIdle
  /\ StoreIdle
  /\ PipeIdle
  /\ StreamIdle

\* sm.RegisterStrategy(name, v): an error, and no change, for a name already
\* registered or parameters ValidateParameters refuses
RegisterStrategy(name) ==
  /\ ~panicked
  /\ name \notin strategies
  /\ ValidateParameters(params)
  /\ strategies' = strategies \cup {name}
  /\ UNCHANGED <<strategyVars, signalVars, storeVars, goroutines, lastMsg,
                 handlerRet, evalLog, streamVars>>

Register == \E name \in StrategyNames : RegisterStrategy(name)

\* sh.HandleKlineData(data)
Handle(data) ==
  LET r == HandleKlineData(goroutines, strategies, data)
  IN  /\ lastMsg' = [n |-> lastMsg.n + 1, data |-> data]
      /\ handlerRet' = r.ret
      /\ goroutines' = r.goroutines
      /\ UNCHANGED <<strategyVars, signalVars, storeVars, strategies, evalLog>>

HandleMessage ==
  /\ lastMsg.n < MaxMsgs
  /\ \E data \in Messages : Handle(data)
  /\ UNCHANGED streamVars

\* one goroutine of ProcessKlineData is scheduled and enters
\* s.GenerateSignal([]KlineData{*data})
StartGoroutine ==
  /\ ~panicked
  /\ \E i \in 1..Len(goroutines) :
        /\ goroutines[i].pc = "go"
        /\ goroutines' = [goroutines EXCEPT ![i].pc = "GenerateSignal"]
  /\ UNCHANGED <<strategyVars, signalVars, storeVars, strategies, lastMsg,
                 handlerRet, evalLog, streamVars>>

\* one goroutine inside s.GenerateSignal([]KlineData{*data}) completes it
RunGoroutine ==
  /\ ~panicked
  /\ \E i \in 1..Len(goroutines) :
        /\ goroutines[i].pc = "GenerateSignal"
        /\ GenerateSignal(<<goroutines[i].data>>)
        /\ goroutines' = SubSeq(goroutines, 1, i - 1)
                            \o SubSeq(goroutines, i + 1, Len(goroutines))
        /\ evalLog' = Append(evalLog, goroutines[i].data)
  /\ UNCHANGED <<storeVars, strategies, lastMsg, handlerRet, streamVars>>

\* the arguments of v.SetParameters on the registered instance: the default
\* values again, and a stop loss of 50 percent
SetParametersArgs ==
  { <<12, 144, 169, 288, 338, 20, 40>>,
    <<12, 144, 169, 288, 338, 500, 40>> }

\* v.SetParameters(...) on the instance, registered or not
Reconfigure ==
  /\ \E a \in SetParametersArgs :
        params' = SetParameters(params, a[1], a[2], a[3], a[4], a[5], a[6], a[7])
  /\ UNCHANGED <<kline15MData, kline4HData, signalVars, storeVars, pipeVars,
                 streamVars>>

Next ==
  Register \/ HandleMessage \/ StartGoroutine \/ RunGoroutine \/ Reconfigure

Spec == Init /\ [][Next]_vars

\* C2: a bar that ProcessKlineData handed to the strategy is, after the
\* evaluation, the last bar of the 15m series, whose length grew by one or
\* stays at the cap.
C2_EvaluatedBarAppended ==
  (Generated /\ evalLog # <<>>) =>
    /\ kline15MData # <<>>
    /\ kline15MData[Len(kline15MData)] = evalLog[Len(evalLog)]
    /\ Len(kline15MData) = Min(Len(lastCall.before.k15) + 1, 1000)

\* C10: a kline message with IsClosed = false leaves both series as they
\* were, starts no evaluation, and HandleKlineData returns nil.
C10_UnclosedBarIgnored ==
  [][(lastMsg'.n # lastMsg.n /\ ~lastMsg'.data.IsClosed) =>
       /\ kline15MData' = kline15MData
       /\ kline4HData' = kline4HData
       /\ goroutines' = goroutines
       /\ evalLog' = evalLog
       /\ handlerRet' = "nil"]_vars

C10_Witness ==
  /\ lastMsg.n > 1 /\ ~lastMsg.data.IsClosed
  /\ ValidateKlineData(<<ToKlineData(lastMsg.data)>>)
  /\ strategies # {}
  /\ handlerRet = "nil"
  /\ goroutines = <<>> /\ Len(evalLog) = 1

(***************************************************************************)
(* SpecStream: StreamManager over the WebSocket client                     *)
(***************************************************************************)
\* how long ws.streams may grow, and how many messages are read
MaxStreams == 4
MaxReceived == 2

Intervals == {"15m", "4h"}

Ws == [streams |-> wsStreams, handlers |-> wsHandlers]

\* StreamManager.Start; a second Start returns an error, and so does a Start
\* whose client is running already, which then leaves running false
SMStart ==
  /\ ~panicked
  /\ smMu = "free"
  /\ ~smRunning
  /\ wsHandlers' = SetStreamHandler(Ws, StrategyHandler).handlers
  /\ wsRunning' = TRUE
  /\ smRunning' = ~wsRunning
  /\ monitorPc' = IF wsRunning THEN monitorPc ELSE "select"
  /\ UNCHANGED <<strategyVars, signalVars, storeVars, pipeVars,
                 smSubscriptions, wsStreams, wsConnStreams, panicked,
                 dispatch, smMu, smCtxDone, stopPc,
                 serviceVars>>

\* StreamManager.Subscribe(symbol, interval); an error, and no change, when
\* the subscription is active
SMSubscribe(symbol, interval) ==
  LET key == <<symbol, interval>>
      ws == SubscribeTicker(SubscribeKline(Ws, symbol, interval), symbol)
  IN  /\ ~panicked
      /\ smMu = "free"
      /\ ~(key \in DOMAIN smSubscriptions /\ smSubscriptions[key])
      /\ Len(wsStreams) + 2 <= MaxStreams
      /\ smSubscriptions' = MapPut(smSubscriptions, key, TRUE)
      /\ wsStreams' = ws.streams
      /\ wsHandlers' = ws.handlers
      /\ UNCHANGED <<strategyVars, signalVars, storeVars, pipeVars, smRunning,
                     wsConnStreams, wsRunning, panicked, dispatch,
                     shutdownVars,
                     serviceVars>>

\* StreamManager.Unsubscribe(symbol, interval); nothing for an unknown key
SMUnsubscribe(symbol, interval) ==
  LET key == <<symbol, interval>>
      ws == UnsubscribeTicker(UnsubscribeKline(Ws, symbol, interval), symbol)
  IN  /\ ~panicked
      /\ smMu = "free"
      /\ key \in DOMAIN smSubscriptions
      /\ smSubscriptions' = MapPut(smSubscriptions, key, FALSE)
      /\ wsStreams' = ws.streams
      /\ wsHandlers' = ws.handlers
      /\ UNCHANGED <<strategyVars, signalVars, storeVars, pipeVars, smRunning,
                     wsConnStreams, wsRunning, panicked, dispatch,
                     shutdownVars,
                     serviceVars>>

\* checkSubscriptionHealth: the goroutine it starts for an active
\* subscription whose LastData, which nothing refreshes, is two minutes old
SMResubscribe(symbol, interval) ==
  LET key == <<symbol, interval>>
      ws == SubscribeTicker(SubscribeKline(Ws, symbol, interval), symbol)
  IN  /\ ~panicked
      /\ smRunning
      /\ key \in DOMAIN smSubscriptions /\ smSubscriptions[key]
      /\ Len(wsStreams) + 2 <= MaxStreams
      /\ wsStreams' = ws.streams
      /\ wsHandlers' = ws.handlers
      /\ UNCHANGED <<strategyVars, signalVars, storeVars, pipeVars, smRunning,
                     smSubscriptions, wsConnStreams, wsRunning, panicked,
                     dispatch, shutdownVars,
                     serviceVars>>

\* connect: the URL is built from the streams listed at this moment
WsConnect ==
  /\ ~panicked
  /\ wsRunning
  /\ wsConnStreams = <<>>
  /\ wsStreams # <<>>
  /\ wsConnStreams' = wsStreams
  /\ UNCHANGED <<strategyVars, signalVars, storeVars, pipeVars, smRunning,
                 smSubscriptions, wsStreams, wsHandlers, wsRunning, panicked,
                 dispatch, shutdownVars,
                 serviceVars>>

\* messageLoop: ReadMessage fails, the connection is dropped
WsReadError ==
  /\ ~panicked
  /\ wsConnStreams # <<>>
  /\ wsConnStreams' = <<>>
  /\ UNCHANGED <<strategyVars, signalVars, storeVars, pipeVars, smRunning,
                 smSubscriptions, wsStreams, wsHandlers, wsRunning, panicked,
                 dispatch, shutdownVars,
                 serviceVars>>

\* whether an active subscription of the StreamManager covers the stream
IsSubscribed(stream) ==
  \E key \in DOMAIN smSubscriptions :
     /\ smSubscriptions[key]
     /\ \/ stream = KlineStreamName(key[1], key[2])
        \/ stream = TickerStreamName(key[1])

\* a message that json.Unmarshal refuses
Unparseable == <<"{">>

\* what a message read from the connection carries: a well formed bar, a
\* bar with high below low, or no JSON at all
ReceivedTexts ==
  { <<"500", "502", "499", "501">>, <<"500", "499", "502", "501">>,
    Unparseable }

\* messageLoop: a message of a stream of the URL is read and handled; an
\* error handleMessage returns is logged and the loop goes on
WsReceive(stream, closed, x) ==
  LET outcome == IF x = Unparseable THEN "parse error"
                 ELSE handleMessage(Ws, stream)
      data == KlineStreamData(stream, "BTCUSDT", 900000, x[1], x[2], x[3],
                              x[4], "1", closed)
  IN  /\ ~panicked
      /\ dispatch.n < MaxReceived
      /\ stream \in Range(wsConnStreams)
      /\ (stream[2] = "@ticker" \/ x = Unparseable) => ~closed
      /\ dispatch' = [n |-> dispatch.n + 1,
                      stream |-> IF x = Unparseable THEN <<"", "", "">>
                                 ELSE stream,
                      subscribed |-> x # Unparseable /\ IsSubscribed(stream),
                      closed |-> closed, outcome |-> outcome]
      /\ panicked' = (outcome = "panic")
      /\ IF outcome = "HandleKlineData" THEN Handle(data)
         ELSE UNCHANGED <<strategyVars, signalVars, storeVars, pipeVars>>
      /\ UNCHANGED <<smRunning, smSubscriptions, wsStreams, wsHandlers,
                     wsConnStreams, wsRunning, shutdownVars,
                     serviceVars>>

Receive ==
  \E stream \in Range(wsConnStreams), closed \in BOOLEAN, x \in ReceivedTexts :
     WsReceive(stream, closed, x)

NextStream ==
  \/ SMStart
  \/ \E interval \in Intervals : SMSubscribe("BTCUSDT", interval)
  \/ \E interval \in Intervals : SMUnsubscribe("BTCUSDT", interval)
  \/ \E interval \in Intervals : SMResubscribe("BTCUSDT", interval)
  \/ WsConnect
  \/ WsReadError
  \/ Receive
  \/ RegisterStrategy("vegas_tunnel")
  \/ StartGoroutine
  \/ RunGoroutine

SpecStream == Init /\ [][NextStream]_vars

\* C3: every closed kline message read for a stream that is subscribed
\* through the StreamManager is given to StrategyHandler.HandleKlineData
\* (and so to ProcessKlineData); its handler is neither missing nor nil.
C3_SubscribedKlineDispatched ==
  (/\ dispatch.n > 0
   /\ dispatch.subscribed
   /\ dispatch.closed
   /\ dispatch.stream[2] = "@kline_") =>
    /\ dispatch.outcome = "HandleKlineData"
    /\ lastMsg.n > 0
    /\ lastMsg.data.Stream = dispatch.stream

(***************************************************************************)
(* Further claims about the series store (SpecStore)                       *)
(***************************************************************************)
StrictlyOrdered(series) ==
  \A i \in 1..(Len(series) - 1) :
     series[i].Timestamp < series[i + 1].Timestamp

\* C11: a bar whose open time is not after the open time of the last bar of
\* its series is rejected and the series stays as it was, so the open times
\* of each series are strictly increasing.
C11_StaleBarRejected ==
  /\ StrictlyOrdered(kline15MData)
  /\ StrictlyOrdered(kline4HData)

(***************************************************************************)
(* Further claims about the pipeline from a message to the strategy (Spec) *)
(***************************************************************************)
\* a bar outside low <= open, close <= high, or with a price or the volume
\* below zero
InvalidBar(kline) ==
  \/ kline.Low > kline.Open \/ kline.Low > kline.Close
  \/ kline.High < kline.Open \/ kline.High < kline.Close
  \/ kline.Open < 0 \/ kline.High < 0 \/ kline.Low < 0 \/ kline.Close < 0
  \/ kline.Volume < 0

\* C12: a closed bar outside low <= open, close <= high, or with a negative
\* price or volume, is refused by ProcessKlineData with an error, is handed
\* to no strategy and is in no series.
C12_InvalidBarRejected ==
  /\ (lastMsg.n > 0 /\ lastMsg.data.IsClosed
        /\ InvalidBar(ToKlineData(lastMsg.data))) => handlerRet = "error"
  /\ \A i \in 1..Len(goroutines) : ~InvalidBar(goroutines[i].data)
  /\ \A i \in 1..Len(evalLog) : ~InvalidBar(evalLog[i])
  /\ \A i \in 1..Len(kline15MData) : ~InvalidBar(kline15MData[i])
  /\ \A i \in 1..Len(kline4HData) : ~InvalidBar(kline4HData[i])

\* C13: at every moment the parameters of each registered strategy satisfy
\* ValidateParameters, whatever the order of SetParameters, RegisterStrategy
\* and evaluations; no strategy with refused parameters is evaluated.
C13_RegisteredParametersValid ==
  strategies # {} => ValidateParameters(params)

\* the goroutines of one strategy that are inside GenerateSignal
InFlight(name) ==
  { i \in 1..Len(goroutines) :
      goroutines[i].strategyName = name /\ goroutines[i].pc = "GenerateSignal" }

\* C14: for bars delivered one after another through ProcessKlineData, at
\* most one GenerateSignal execution per strategy is in flight, and a bar is
\* not evaluated while an earlier bar of that strategy still waits.
C14_OneEvaluationAtATime ==
  \A name \in StrategyNames :
     /\ Cardinality(InFlight(name)) <= 1
     /\ \A j \in InFlight(name) :
          \A i \in 1..(j - 1) :
             goroutines[i].strategyName = name => goroutines[i].pc # "go"

(***************************************************************************)
(* Further claims about signal generation (SpecSignal)                     *)
(***************************************************************************)
\* C15: a signal for one symbol is computed from series that hold only that
\* symbol's bars; bars of another symbol do not enter it.
C15_SeriesOfSignalSymbol ==
  (Generated /\ lastSignal # NilSignal) =>
    /\ \A i \in 1..Len(kline15MData) :
          kline15MData[i].Symbol = lastSignal.Symbol
    /\ \A i \in 1..Len(kline4HData) :
          kline4HData[i].Symbol = lastSignal.Symbol

(***************************************************************************)
(* Further claims about the stream manager (SpecStream)                    *)
(***************************************************************************)
\* C16: whatever happens while one message is handled (no JSON, a bar that
\* validation refuses, an error of the handler), the failure ends with that
\* message: messageLoop is still running afterwards and goes on to dispatch
\* the messages that follow.
C16_FailureScopedToMessage ==
  dispatch.n > 0 => ~panicked

(***************************************************************************)
(* SpecShutdown: StreamManager.Stop against monitorConnections             *)
(***************************************************************************)
\* Stop: sm.mu.Lock(); a manager that is not running returns at once
StopEnter ==
  /\ ~panicked
  /\ stopPc = "idle"
  /\ smMu = "free"
  /\ IF smRunning
     THEN smMu' = "Stop" /\ stopPc' = "cancel"
     ELSE smMu' = "free" /\ stopPc' = "done"
  /\ UNCHANGED <<strategyVars, signalVars, storeVars, pipeVars, smRunning,
                 smSubscriptions, wsStreams, wsHandlers, wsConnStreams,
                 wsRunning, panicked, dispatch, smCtxDone, monitorPc,
                 serviceVars>>

\* Stop: sm.cancel() and sm.binanceWS.Stop(), which closes the connection
StopCancel ==
  /\ ~panicked
  /\ stopPc = "cancel"
  /\ smCtxDone' = TRUE
  /\ wsRunning' = FALSE
  /\ wsConnStreams' = <<>>
  /\ stopPc' = "wait"
  /\ UNCHANGED <<strategyVars, signalVars, storeVars, pipeVars, smRunning,
                 smSubscriptions, wsStreams, wsHandlers, panicked, dispatch,
                 smMu, monitorPc,
                 serviceVars>>

\* Stop: sm.wg.Wait() returns once monitorConnections has finished; then
\* running = false and the deferred sm.mu.Unlock()
StopReturn ==
  /\ ~panicked
  /\ stopPc = "wait"
  /\ monitorPc = "done"
  /\ smRunning' = FALSE
  /\ smMu' = "free"
  /\ stopPc' = "done"
  /\ UNCHANGED <<strategyVars, signalVars, storeVars, pipeVars,
                 smSubscriptions, wsStreams, wsHandlers, wsConnStreams,
                 wsRunning, panicked, dispatch, smCtxDone, monitorPc,
                 serviceVars>>

\* monitorConnections: the select takes case <-ticker.C
MonitorTick ==
  /\ ~panicked
  /\ monitorPc = "select"
  /\ monitorPc' = "tick"
  /\ UNCHANGED <<strategyVars, signalVars, storeVars, pipeVars, smRunning,
                 smSubscriptions, wsStreams, wsHandlers, wsConnStreams,
                 wsRunning, panicked, dispatch, smMu, smCtxDone, stopPc,
                 serviceVars>>

\* monitorConnections: the select takes case <-sm.ctx.Done() and the
\* goroutine returns (deferred sm.wg.Done())
MonitorDone ==
  /\ ~panicked
  /\ monitorPc = "select"
  /\ smCtxDone
  /\ monitorPc' = "done"
  /\ UNCHANGED <<strategyVars, signalVars, storeVars, pipeVars, smRunning,
                 smSubscriptions, wsStreams, wsHandlers, wsConnStreams,
                 wsRunning, panicked, dispatch, smMu, smCtxDone, stopPc,
                 serviceVars>>

\* checkSubscriptionHealth: sm.mu.Lock()
MonitorLock ==
  /\ ~panicked
  /\ monitorPc = "tick"
  /\ smMu = "free"
  /\ smMu' = "monitor"
  /\ monitorPc' = "check"
  /\ UNCHANGED <<strategyVars, signalVars, storeVars, pipeVars, smRunning,
                 smSubscriptions, wsStreams, wsHandlers, wsConnStreams,
                 wsRunning, panicked, dispatch, smCtxDone, stopPc,
                 serviceVars>>

\* checkSubscriptionHealth: the loop over the subscriptions (what it starts
\* is SMResubscribe) and the deferred sm.mu.Unlock(); back to the select
MonitorUnlock ==
  /\ ~panicked
  /\ monitorPc = "check"
  /\ smMu' = "free"
  /\ monitorPc' = "select"
  /\ UNCHANGED <<strategyVars, signalVars, storeVars, pipeVars, smRunning,
                 smSubscriptions, wsStreams, wsHandlers, wsConnStreams,
                 wsRunning, panicked, dispatch, smCtxDone, stopPc,
                 serviceVars>>

Stop == StopEnter \/ StopCancel \/ StopReturn

monitorConnections ==
  MonitorTick \/ MonitorDone \/ MonitorLock \/ MonitorUnlock

NextShutdown ==
  \/ SMStart
  \/ \E interval \in Intervals : SMSubscribe("BTCUSDT", interval)
  \/ \E interval \in Intervals : SMUnsubscribe("BTCUSDT", interval)
  \/ \E interval \in Intervals : SMResubscribe("BTCUSDT", interval)
  \/ StopEnter
  \/ StopCancel
  \/ StopReturn
  \/ MonitorTick
  \/ MonitorDone
  \/ MonitorLock
  \/ MonitorUnlock

SpecShutdown == Init /\ [][NextShutdown]_vars

\* C17: shutdown completes under every interleaving of Stop with the health
\* check tick: while Stop is between its Lock and its return, Stop or
\* monitorConnections can take a step (no deadlock on StreamManager.mu), so
\* Stop returns with the monitor finished.
C17_StopNeverStuck ==
  stopPc \in {"cancel", "wait"} => ENABLED (Stop \/ monitorConnections)

\* the call lacked the history GenerateSignal asks for
InsufficientHistory ==
  \/ lastCall.klines = <<>>
  \/ Len(kline15MData) < params.longTunnel2Period
  \/ Len(kline4HData) < params.longTunnel2Period

MaxPrices == 4

\* prices of the model, whole numbers
PriceVals == {1, 2, 4}

\* periods of the model, see Alpha
Periods == {1, 2, 3, 4}

RECURSIVE PriceSeqs(_)
PriceSeqs(n) ==
  IF n = 0 THEN {<<>>}
  ELSE { Append(ps, NewFromInt(x)) : ps \in PriceSeqs(n - 1), x \in PriceVals }

InitEMA ==
  /\ StrategyInit
  /\ ema15M = NoEma
  /\ ema4H = NoEma
  /\ lastCall = [op |-> "none"]
  /\ lastSignal = NilSignal
  /\ \E n \in 0..MaxPrices, period \in Periods :
        \E prices \in PriceSeqs(n) :
           emaCall = [made |-> FALSE, prices |-> prices, period |-> period]
  /\ emaResult = NilSlice
  /\ tunnelCall = [made |-> FALSE, prices |-> <<>>]
  /\ tunnelResult = NilSlice
  /\ StoreIdle
  /\ PipeIdle
  /\ StreamIdle

\* v.CalculateEMA(prices, period)
CallCalculateEMA ==
  /\ ~emaCall.made
  /\ emaCall' = [emaCall EXCEPT !.made = TRUE]
  /\ emaResult' = CalculateEMA(emaCall.prices, emaCall.period)
  /\ UNCHANGED <<strategyVars, ema15M, ema4H, lastCall, lastSignal, storeVars,
                 pipeVars, streamVars, tunnelCall, tunnelResult>>

NextEMA == CallCalculateEMA

SpecEMA == InitEMA /\ [][NextEMA]_vars

\* C19: for a period p >= 1 and fewer than p prices CalculateEMA returns
\* nil, never a slice of numbers.
C19_NilWhenShorterThanPeriod ==
  (emaCall.made /\ Len(emaCall.prices) < emaCall.period) =>
    /\ emaResult.isNil
    /\ emaResult.values = <<>>

\* one price short of the period
C19_Witness ==
  /\ emaCall.made
  /\ emaCall.prices # <<>>
  /\ Len(emaCall.prices) = emaCall.period - 1
  /\ emaResult = NilSlice

\* the sum of the coefficients of the first n prices (whole numbers)
RECURSIVE CoefSum(_, _)
CoefSum(prices, n) ==
  IF n = 0 THEN 0 ELSE CoefSum(prices, n - 1) + prices[n].coef

\* the call returned a slice with an entry at index period - 1
SeedComputed == emaCall.made /\ Len(emaCall.prices) >= emaCall.period

\* the entry at index period - 1 (the slices of the model count from 1)
Seed == emaResult.values[emaCall.period]

\* C20 as stated: with at least p prices, the entry at index p - 1 is the
\* arithmetic mean of the first p prices, so p times it is their sum.
C20_SeedIsMean ==
  SeedComputed =>
    /\ ~emaResult.isNil
    /\ DecimalEqual(DecimalMul(Seed, NewFromInt(emaCall.period)),
                    NewFromInt(CoefSum(emaCall.prices, emaCall.period)))

\* C20, amended: with at least p prices, the entry at index p - 1 is the
\* arithmetic mean of the first p prices rounded to DivisionPrecision
\* digits after the point, a half rounded up: it has that many digits, is
\* within half a unit of the last digit of the mean, and is the mean itself
\* when the mean has no more digits than that.
C20_SeedIsRoundedMean ==
  SeedComputed =>
    LET p == emaCall.period
        sum == CoefSum(emaCall.prices, p) * Pow10(DivisionPrecision)
        r == Rescale(Seed, DivisionPrecision)
    IN  /\ ~emaResult.isNil
        /\ Len(emaResult.values) = Len(emaCall.prices)
        /\ Seed.exp <= DivisionPrecision
        /\ 2 * (r * p - sum) <= p
        /\ 2 * (sum - r * p) < p

\* three prices whose mean 4/3 has no finite decimal expansion
C20_Witness ==
  /\ SeedComputed
  /\ emaCall.period = 3
  /\ CoefSum(emaCall.prices, 3) = 4
  /\ Len(emaCall.prices) = 4
  /\ Seed = Decimal((4 * Pow10(DivisionPrecision)) \div 3, DivisionPrecision)

(***************************************************************************)
(* Claims about the entry signal's fields and conditions (SpecSignal)      *)
(***************************************************************************)
Indicator(b) == IF b THEN 1 ELSE 0

\* GenerateSignal returned a Buy, a Sell
BuyEmitted == Generated /\ lastSignal.Type = SignalBuy
SellEmitted == Generated /\ lastSignal.Type = SignalSell

Last4HClose == kline4HData[Len(kline4HData)].Close

\* C23: a Buy is emitted only if the latest 4H bar's close is above the
\* lower bound of the 4H mid tunnel, a Sell only if the latest 4H bar's
\* close is below its upper bound
C23_SlowCloseAgainstSlowTunnel ==
  /\ BuyEmitted => Last4HClose > SlowMidLower
  /\ SellEmitted => Last4HClose < SlowMidUpper

\* C24: an entry signal is emitted only if the latest 15M close c, which is
\* the signal's price, is within 0.2% of the 15M mid tunnel or of the 15M
\* long tunnel: lower * 0.998 <= c <= upper * 1.002
C24_EntryOnlyNearFastTunnel ==
  (BuyEmitted \/ SellEmitted) =>
     /\ lastSignal.Price = LastClose
     /\ \/ /\ 1000 * LastClose >= 998 * FastMidLower
           /\ 1000 * LastClose <= 1002 * FastMidUpper
        \/ /\ 1000 * LastClose >= 998 * FastLongLower
           /\ 1000 * LastClose <= 1002 * FastLongUpper

\* an entry whose close is inside neither band, within the tolerance only
C24_Witness ==
  /\ BuyEmitted \/ SellEmitted
  /\ LastClose < FastMidLower \/ LastClose > FastMidUpper
  /\ LastClose < FastLongLower \/ LastClose > FastLongUpper

\* C25: every Buy has the latest 15M close strictly above the 15M short
\* EMA, every Sell has it strictly below; with the close equal to the short
\* EMA, GenerateSignal returns no entry signal
C25_StrictlyBeyondShortEMA ==
  /\ BuyEmitted => LastClose > FastShort
  /\ SellEmitted => LastClose < FastShort
  /\ (Generated /\ EnoughBars /\ FastDefined /\ LastClose = FastShort)
        => lastSignal = NilSignal

\* every other step of the long setup, or of the short setup, holds and the
\* close equals the short EMA: no signal
C25_Witness ==
  /\ Generated /\ EnoughBars /\ FastDefined
  /\ LastClose = FastShort
  /\ FastNear
  /\ \/ SlowBullish /\ LastClose > SlowMidLower
     \/ SlowBearish /\ LastClose < SlowMidUpper
  /\ lastSignal = NilSignal

Distance(a, b) == IF a >= b THEN a - b ELSE b - a

\* those of the two bounds a and b at the least distance from the price c
Nearer(c, a, b) ==
  {x \in {a, b} : Distance(x, c) <= Distance(a, c)
                    /\ Distance(x, c) <= Distance(b, c)}

\* C26: the stop-loss of a Buy is 0.998 times the nearer to the price of
\* the 15M mid tunnel's lower bound and the 15M long tunnel's bound on the
\* lower side (the long tunnel's lower bound, or its upper bound that the
\* program compares); the stop-loss of a Sell is 1.002 times the nearer of
\* the mid tunnel's upper bound and the long tunnel's bound
C26_StopAtNearerBound ==
  /\ BuyEmitted =>
       \E b \in Nearer(LastClose, FastMidLower, FastLongLower)
                 \cup Nearer(LastClose, FastMidLower, FastLongUpper) :
          1000 * lastSignal.StopLoss = 998 * b
  /\ SellEmitted =>
       \E b \in Nearer(LastClose, FastMidUpper, FastLongUpper)
                 \cup Nearer(LastClose, FastMidUpper, FastLongLower) :
          1000 * lastSignal.StopLoss = 1002 * b

\* C27: the take-profit of a Buy is Price + (Price - StopLoss) *
\* riskRewardRatio, that of a Sell is Price - (StopLoss - Price) *
\* riskRewardRatio, and riskRewardRatio is 2.0
C27_TakeProfitFormula ==
  /\ (BuyEmitted \/ SellEmitted) => params.riskRewardRatio = Dec(2)
  /\ BuyEmitted =>
       lastSignal.TakeProfit =
          lastSignal.Price + 2 * (lastSignal.Price - lastSignal.StopLoss)
  /\ SellEmitted =>
       lastSignal.TakeProfit =
          lastSignal.Price - 2 * (lastSignal.StopLoss - lastSignal.Price)

\* a Buy with its stop below the price and its target above it
C27_Witness ==
  /\ BuyEmitted
  /\ lastSignal.StopLoss < lastSignal.Price
  /\ lastSignal.TakeProfit > lastSignal.Price

\* the tunnel state is Bullish by its bounds / Bearish by its bounds
BullishBounds(t) == t.MidTunnelLower > t.LongTunnelUpper
BearishBounds(t) == t.MidTunnelUpper < t.LongTunnelLower

\* the bounds of each band are the smaller and the greater of its two EMAs,
\* and the two directions do not hold together
ExclusiveDirections(t) ==
  /\ t.MidTunnelLower = Min(t.EMA144, t.EMA169)
  /\ t.MidTunnelUpper = Max(t.EMA144, t.EMA169)
  /\ t.LongTunnelLower = Min(t.EMA288, t.EMA338)
  /\ t.LongTunnelUpper = Max(t.EMA288, t.EMA338)
  /\ ~(BullishBounds(t) /\ BearishBounds(t))
  /\ t.TrendDirection = TrendBullish <=> BullishBounds(t)
  /\ t.TrendDirection = TrendBearish <=> BearishBounds(t)

\* C29: in every tunnel state computed, 15M or 4H, each band's lower bound
\* is the minimum and its upper bound the maximum of its two EMAs, and
\* MidTunnelLower > LongTunnelUpper and MidTunnelUpper < LongTunnelLower
\* never hold together
C29_DirectionsExclusive ==
  /\ FastDefined => ExclusiveDirections(TunnelEntry(ema15M))
  /\ SlowDefined => ExclusiveDirections(TunnelEntry(ema4H))

\* GenerateSignal ran over a Bullish 15M tunnel state whose two bands both
\* have distinct bounds, the mid EMAs in the order that has to be swapped
C29_Witness ==
  /\ Generated /\ EnoughBars /\ FastDefined
  /\ BullishBounds(TunnelEntry(ema15M))
  /\ ema15M[2] > ema15M[3]
  /\ ema15M[4] < ema15M[5]

(***************************************************************************)
(* Claims about the EMA recursion and the tunnel series (SpecEMA)          *)
(***************************************************************************)
\* result[i] = prices[i] * a + result[i-1] * (1 - a) at every index past
\* the seed (the slices of the model count from 1)
RecursionWith(a) ==
  \A i \in (emaCall.period + 1)..Len(emaCall.prices) :
     DecimalEqual(emaResult.values[i],
                  DecimalAdd(DecimalMul(emaCall.prices[i], a),
                             DecimalMul(emaResult.values[i - 1],
                                        DecimalSub(NewFromInt(1), a))))

TunnelDataZero ==
  [EMA12 |-> 0, EMA144 |-> 0, EMA169 |-> 0, EMA288 |-> 0, EMA338 |-> 0,
   MidTunnelUpper |-> 0, MidTunnelLower |-> 0, LongTunnelUpper |-> 0,
   LongTunnelLower |-> 0, TrendDirection |-> TrendNone]

\* the greatest exponent of five decimals
MaxExp(ds) ==
  Max(Max(Max(ds[1].exp, ds[2].exp), Max(ds[3].exp, ds[4].exp)), ds[5].exp)

\* tunnelData[i], i counted from 1: the zero value below longTunnel2Period,
\* then the entry from the five slices at i; the five decimals are written
\* with one exponent, which keeps their order
TunnelDataAt(emas, p, i) ==
  IF i < p.longTunnel2Period THEN TunnelDataZero
  ELSE LET ds == [k \in 1..5 |-> emas[k].values[i]]
       IN  TunnelEntry([k \in 1..5 |-> Rescale(ds[k], MaxExp(ds))])

\* CalculateTunnelData(klines), prices being the closes of klines: nil, or
\* the whole slice
CalculateTunnelDataSeries(prices, p) ==
  IF Len(prices) < p.longTunnel2Period THEN NilSlice
  ELSE LET emas == <<CalculateEMA(prices, p.shortEMAPeriod),
                     CalculateEMA(prices, p.midTunnel1Period),
                     CalculateEMA(prices, p.midTunnel2Period),
                     CalculateEMA(prices, p.longTunnel1Period),
                     CalculateEMA(prices, p.longTunnel2Period)>>
       IN  IF \E k \in 1..5 : emas[k].isNil THEN NilSlice
           ELSE Slice([i \in 1..Len(prices) |-> TunnelDataAt(emas, p, i)])

\* Periods that pass ValidateParameters and fit MaxPrices closes: the long
\* periods in the order of the defaults, in the other order, and the first
\* mid period above both long periods (ValidateParameters compares the long
\* periods with midTunnel2Period only).
TunnelParamChoices ==
  { SetParameters(DefaultParams, 1, 2, 2, 3, 4, 20, 40),
    SetParameters(DefaultParams, 1, 2, 2, 4, 3, 20, 40),
    SetParameters(DefaultParams, 1, 4, 2, 3, 3, 20, 40) }

InitTunnel ==
  /\ params \in TunnelParamChoices
  /\ kline15MData = <<>>
  /\ kline4HData = <<>>
  /\ ema15M = NoEma
  /\ ema4H = NoEma
  /\ lastCall = [op |-> "none"]
  /\ lastSignal = NilSignal
  /\ emaCall = [made |-> FALSE, prices |-> <<>>, period |-> 1]
  /\ emaResult = NilSlice
  /\ \E n \in 0..MaxPrices :
        \E prices \in PriceSeqs(n) :
           tunnelCall = [made |-> FALSE, prices |-> prices]
  /\ tunnelResult = NilSlice
  /\ StoreIdle
  /\ PipeIdle
  /\ StreamIdle

\* v.CalculateTunnelData(klines)
CallCalculateTunnelData ==
  /\ ~tunnelCall.made
  /\ tunnelCall' = [tunnelCall EXCEPT !.made = TRUE]
  /\ tunnelResult' = CalculateTunnelDataSeries(tunnelCall.prices, params)
  /\ UNCHANGED <<strategyVars, ema15M, ema4H, lastCall, lastSignal, emaCall,
                 emaResult, storeVars, pipeVars, streamVars>>

NextTunnel == CallCalculateTunnelData

SpecTunnel == InitTunnel /\ [][NextTunnel]_vars

\* the first index, counted from 1, that the claim holds valid
FirstValid == Max(params.longTunnel1Period, params.longTunnel2Period)

\* the EMA of every one of the five periods is defined at index i
AllEMADefined(i) ==
  /\ i >= params.shortEMAPeriod
  /\ i >= params.midTunnel1Period /\ i >= params.midTunnel2Period
  /\ i >= params.longTunnel1Period /\ i >= params.longTunnel2Period

\* C30: for parameters that pass ValidateParameters, CalculateTunnelData
\* returns nil for fewer than max(longTunnel1Period, longTunnel2Period)
\* closes; otherwise a slice as long as its input, whose entries before
\* index max(longTunnel1Period, longTunnel2Period) - 1 are the zero value
\* (TrendNone) and whose entries from there on are computed, each at an
\* index where all five EMAs are defined
C30_ValidFromLongestLongPeriod ==
  (tunnelCall.made /\ ValidateParameters(params)) =>
     IF Len(tunnelCall.prices) < FirstValid THEN tunnelResult.isNil
     ELSE /\ ~tunnelResult.isNil
          /\ Len(tunnelResult.values) = Len(tunnelCall.prices)
          /\ \A i \in 1..Len(tunnelCall.prices) :
                IF i < FirstValid
                THEN tunnelResult.values[i] = TunnelDataZero
                ELSE /\ tunnelResult.values[i].TrendDirection # TrendNone
                     /\ AllEMADefined(i)

(***************************************************************************)
(* SpecBot: the Telegram bot from New to before Stop: Start, the updates   *)
(* updateProcessor hands to handleUpdate, and messageProcessor             *)
(***************************************************************************)
\* cfg.AdminChatID, which New requires to differ from 0, kept as Bot.chatID
AdminChatID == 1

\* capacity of Bot.messageQueue
QueueCap == 100

MessageTypeText == "text"
MessageTypeMarkdown == "markdown"

\* the commands registerDefaultHandlers registers
commandHandlers ==
  {"start", "help", "status", "stop", "resume", "positions", "balance"}

\* a non-blocking send on messageQueue: the message is queued, or dropped
\* with an error when the queue is full
Enqueue(queue, msg) ==
  IF Len(queue) < QueueCap THEN Append(queue, msg) ELSE queue

\* b.SendMessageToChat(chatID, text)
SendMessageToChat(queue, chat, text) ==
  Enqueue(queue, [ChatID |-> chat, Text |-> text, Type |-> MessageTypeText])

\* b.SendMessage(text)
SendMessage(queue, text) == SendMessageToChat(queue, AdminChatID, text)

\* b.SendMarkdownMessage(text)
SendMarkdownMessage(queue, text) ==
  Enqueue(queue, [ChatID |-> AdminChatID, Text |-> text,
                  Type |-> MessageTypeMarkdown])

\* handler.Handle(ctx, b, update): each of the seven handlers builds its
\* text and ends with bot.SendMarkdownMessage(message)
CommandHandle(queue, command) == SendMarkdownMessage(queue, command)

\* b.handleCommand(ctx, update): the queue after it and the handler called
handleCommand(queue, update) ==
  IF update.command \notin commandHandlers
  THEN [queue |-> SendMessage(queue, "unknown"), handler |-> "none"]
  ELSE [queue |-> CommandHandle(queue, update.command), handler |-> update.command]

\* handleUpdate without the comparison of the chat with b.chatID
handleUpdateAnyChat(queue, update) ==
  IF update.kind = "none" THEN [queue |-> queue, handler |-> "none"]
  ELSE IF update.kind = "command" THEN handleCommand(queue, update)
  ELSE [queue |-> queue, handler |-> "none"]

\* b.handleUpdate(ctx, update)
handleUpdate(queue, update) ==
  IF update.kind = "none" THEN [queue |-> queue, handler |-> "none"]
  ELSE IF update.chat # AdminChatID
  THEN [queue |-> queue, handler |-> "none"]
  ELSE IF update.kind = "command" THEN handleCommand(queue, update)
  ELSE [queue |-> queue, handler |-> "none"]

MaxUpdates == 3
ChatIDs == {1, 2}
Commands == {"status", "stop", "bogus"}

\* updates: without a Message (kind "none"), a text message, a command
Updates ==
  {[chat |-> 0, kind |-> "none", command |-> ""]}
  \cup {[chat |-> c, kind |-> "text", command |-> ""] : c \in ChatIDs}
  \cup {[chat |-> c, kind |-> "command", command |-> k] :
          c \in ChatIDs, k \in Commands}

InitBot ==
  /\ StrategyInit
  /\ SignalIdle
  /\ StoreIdle
  /\ PipeIdle
  /\ StreamIdle

\* b.Start(ctx): GetMe succeeds or fails
BotStart ==
  /\ ~botRunning
  /\ botRunning' = TRUE
  /\ \E ok \in BOOLEAN :
        IF ok
        THEN /\ botProcessors' = TRUE
             /\ botQueue' = SendMessage(botQueue, "started")
        ELSE UNCHANGED <<botProcessors, botQueue>>
  /\ UNCHANGED <<botSent, botUpdate>>
  /\ UNCHANGED <<strategyVars, signalVars, storeVars, pipeVars, smRunning,
                 smSubscriptions, wsStreams, wsHandlers, wsConnStreams,
                 wsRunning, panicked, dispatch, shutdownVars,
                 backgroundVars>>

\* updateProcessor: one update from the channel, given to handleUpdate
BotUpdate ==
  /\ botProcessors
  /\ botUpdate.n < MaxUpdates
  /\ \E update \in Updates :
        LET r == handleUpdate(botQueue, update)
        IN /\ botQueue' = r.queue
           /\ botUpdate' = [n |-> botUpdate.n + 1, chat |-> update.chat,
                            kind |-> update.kind, command |-> update.command,
                            handler |-> r.handler]
  /\ UNCHANGED <<botRunning, botProcessors, botSent>>
  /\ UNCHANGED <<strategyVars, signalVars, storeVars, pipeVars, smRunning,
                 smSubscriptions, wsStreams, wsHandlers, wsConnStreams,
                 wsRunning, panicked, dispatch, shutdownVars,
                 backgroundVars>>

\* messageProcessor: one message from the queue, given to sendMessage
BotSend ==
  /\ botProcessors
  /\ botQueue # <<>>
  /\ botSent' = Append(botSent, Head(botQueue))
  /\ botQueue' = Tail(botQueue)
  /\ UNCHANGED <<botRunning, botProcessors, botUpdate>>
  /\ UNCHANGED <<strategyVars, signalVars, storeVars, pipeVars, smRunning,
                 smSubscriptions, wsStreams, wsHandlers, wsConnStreams,
                 wsRunning, panicked, dispatch, shutdownVars,
                 backgroundVars>>

NextBot == BotStart \/ BotUpdate \/ BotSend

SpecBot == InitBot /\ [][NextBot]_vars

\* C22: an update whose chat is not the admin chat is dispatched to no
\* command handler and adds no message to the queue; every message queued
\* or sent is addressed to the admin chat
C22_OnlyAdminChatOperates ==
  [][ /\ (botUpdate'.n # botUpdate.n /\ botUpdate'.kind # "none"
            /\ botUpdate'.chat # AdminChatID)
         => (botUpdate'.handler = "none" /\ botQueue' = botQueue
               /\ botSent' = botSent)
      /\ \A i \in 1..Len(botQueue') : botQueue'[i].ChatID = AdminChatID
      /\ \A i \in 1..Len(botSent') : botSent'[i].ChatID = AdminChatID ]_vars

\* a registered command from another chat was handled after the admin
\* chat's command had been answered: nothing more was queued
C22_Witness ==
  /\ botUpdate.n = 2
  /\ botUpdate.chat # AdminChatID
  /\ botUpdate.kind = "command"
  /\ botUpdate.command \in commandHandlers
  /\ botUpdate.handler = "none"
  /\ Len(botQueue) + Len(botSent) = 2

(***************************************************************************)
(* SpecExecutor: TradeExecutor: ExecuteTrade called from outside, the      *)
(* goroutines setStopLossAndTakeProfit it starts, Start and Stop.  The     *)
(* goroutines monitorOrders and monitorPositions only log.                 *)
(***************************************************************************)
\* userConfigRepo.GetByUserID: an error, no row, a row with IsActive false,
\* a row with IsActive true
Configs == {"error", "missing", "inactive", "active"}

\* UserConfig.RiskPercentage (percent) and UserConfig.MaxPositionSize of the
\* row
RiskPercentage == 2
MaxPositionSize == Dec(10)

\* GetAccountInfo: an error, or the USDT asset's AvailableBalance text
Accounts == {"error", "invalid", "0", "1", "1000"}

\* decimal.NewFromString(asset.AvailableBalance), thousandths
AvailableBalance(account) ==
  CASE account = "0" -> Dec(0)
    [] account = "1" -> Dec(1)
    [] account = "1000" -> Dec(1000)

\* riskAmount.Div(price), thousandths, a half rounded up; price # 0
QuantityDiv(riskAmount, price) ==
  (2 * riskAmount * 1000 + price) \div (2 * price)

\* te.calculateQuantity(userConfig, symbol, price): the quantity, an error,
\* or the panic of Decimal.Div by zero
calculateQuantity(account, price) ==
  IF account = "error" \/ account = "invalid"
  THEN [err |-> TRUE, panic |-> FALSE, quantity |-> 0]
  ELSE LET usdtBalance == AvailableBalance(account)
           risk == (usdtBalance * RiskPercentage) \div 100
           riskAmount == IF risk > MaxPositionSize THEN MaxPositionSize
                         ELSE risk
       IN  IF usdtBalance = 0
           THEN [err |-> TRUE, panic |-> FALSE, quantity |-> 0]
           ELSE IF price = 0
           THEN [err |-> FALSE, panic |-> TRUE, quantity |-> 0]
           ELSE IF QuantityDiv(riskAmount, price) < 1
           THEN [err |-> TRUE, panic |-> FALSE, quantity |-> 0]
           ELSE [err |-> FALSE, panic |-> FALSE,
                 quantity |-> QuantityDiv(riskAmount, price)]

\* te.getOppositeSide(signal)
getOppositeSide(signal) ==
  IF signal.Type = SignalBuy THEN "SELL" ELSE "BUY"

\* what ExecuteTrade hands back: the TradeResult's Success and Error (nil or
\* not), the order PlaceOrder accepted, whether a goroutine
\* setStopLossAndTakeProfit was started, whether the call panicked, and
\* request.Quantity after the call
TradeFailed(request) ==
  [Success |-> FALSE, Error |-> TRUE, orders |-> <<>>, spawn |-> FALSE,
   panic |-> FALSE, Quantity |-> request.Quantity]

\* the call does not return: a panic unwinds it
TradePanicked(request) ==
  [Success |-> FALSE, Error |-> FALSE, orders |-> <<>>, spawn |-> FALSE,
   panic |-> TRUE, Quantity |-> request.Quantity]

\* executeBuyOrder, executeSellOrder, executeStopLoss, executeTakeProfit:
\* one PlaceOrder with the side and the type
executeOrder(request, side, type, place, entry) ==
  IF ~place THEN TradeFailed(request)
  ELSE [Success |-> TRUE, Error |-> FALSE,
        orders |-> <<[Side |-> side, Type |-> type]>>,
        spawn |-> entry /\ (request.Signal.StopLoss # 0
                              \/ request.Signal.TakeProfit # 0),
        panic |-> FALSE, Quantity |-> request.Quantity]

\* te.ExecuteTrade(request), with what the repository (config), the account
\* query (account) and PlaceOrder (place: accepted or not) answer
ExecuteTrade(config, account, place, request) ==
  IF config = "error" THEN TradeFailed(request)
  ELSE IF config = "missing" THEN TradeFailed(request)
  ELSE IF config = "inactive" THEN TradeFailed(request)
  ELSE IF request.Signal = NilSignal THEN TradeFailed(request)
  ELSE LET q == IF request.Quantity = 0
                THEN calculateQuantity(account, request.Signal.Price)
                ELSE [err |-> FALSE, panic |-> FALSE,
                      quantity |-> request.Quantity]
           r == [request EXCEPT !.Quantity = q.quantity]
       IN  IF q.panic THEN TradePanicked(request)
           ELSE IF q.err THEN TradeFailed(request)
           ELSE IF r.Signal.Type = SignalBuy
           THEN executeOrder(r, "BUY", "MARKET", place, TRUE)
           ELSE IF r.Signal.Type = SignalSell
           THEN executeOrder(r, "SELL", "MARKET", place, TRUE)
           ELSE IF r.Signal.Type = SignalStopLoss
           THEN executeOrder(r, getOppositeSide(r.Signal), "STOP_MARKET",
                             place, FALSE)
           ELSE IF r.Signal.Type = SignalTakeProfit
           THEN executeOrder(r, getOppositeSide(r.Signal), "LIMIT", place,
                             FALSE)
           ELSE TradeFailed(request)

\* the two requests setStopLossAndTakeProfit builds from the entry's request
stopLossReq(request) ==
  [Signal |-> [Type |-> SignalStopLoss, Price |-> 0,
               StopLoss |-> request.Signal.StopLoss, TakeProfit |-> 0],
   Quantity |-> request.Quantity]

takeProfitReq(request) ==
  [Signal |-> [Type |-> SignalTakeProfit, Price |-> 0, StopLoss |-> 0,
               TakeProfit |-> request.Signal.TakeProfit],
   Quantity |-> request.Quantity]

MaxTrades == 1

\* the signals of the requests: a type, a price (0: not set), and the two
\* levels both unset, both set, or the stop only
SignalTypes ==
  {SignalNone, SignalBuy, SignalSell, SignalStopLoss, SignalTakeProfit}

TradeSignals ==
  {NilSignal} \cup
  { [Type |-> t, Price |-> pr, StopLoss |-> l[1], TakeProfit |-> l[2]] :
      t \in SignalTypes, pr \in {0, Dec(100)},
      l \in {<<0, 0>>, <<Dec(99), Dec(102)>>, <<Dec(99), 0>>} }

\* requests: the quantity given, or zero to have it computed
TradeRequests ==
  { [Signal |-> sig, Quantity |-> q] : sig \in TradeSignals, q \in {0, 50} }

\* an order as the exchange has it, with who placed it (a call from outside
\* or a goroutine setStopLossAndTakeProfit), the type of the entry signal
\* the goroutine belongs to, and whether te.ctx was cancelled by then
PlacedOrders(orders, by, entry) ==
  [i \in 1..Len(orders) |->
     [Side |-> orders[i].Side, Type |-> orders[i].Type, by |-> by,
      entry |-> entry, cancelled |-> teCtxDone]]

InitExecutor ==
  /\ StrategyInit
  /\ SignalIdle
  /\ StoreIdle
  /\ PipeIdle
  /\ StreamIdle

Alive == teCall.outcome # "panic"

\* te.Start()
ExecutorStart ==
  /\ Alive
  /\ ~teRunning
  /\ teRunning' = TRUE
  /\ UNCHANGED <<teCtxDone, teTasks, teOrders, teCall, outsideExecutor>>

\* te.Stop()
ExecutorStop ==
  /\ Alive
  /\ teRunning
  /\ teRunning' = FALSE
  /\ teCtxDone' = TRUE
  /\ UNCHANGED <<teTasks, teOrders, teCall, outsideExecutor>>

\* te.ExecuteTrade(request) called from outside
ExecutorTrade ==
  /\ Alive
  /\ teCall.n < MaxTrades
  /\ \E request \in TradeRequests, config \in Configs, account \in Accounts,
        place \in BOOLEAN :
        LET r == ExecuteTrade(config, account, place, request)
        IN  /\ teCall' = [n |-> teCall.n + 1, config |-> config,
                          signal |-> request.Signal,
                          quantity |-> request.Quantity,
                          outcome |-> IF r.panic THEN "panic"
                                      ELSE IF r.Quantity = 0 THEN "unsized"
                                      ELSE "sized",
                          Success |-> r.Success, Error |-> r.Error,
                          placed |-> Len(r.orders)]
            /\ teOrders' = teOrders \o PlacedOrders(r.orders, "call", "")
            /\ teTasks' = IF r.spawn
                          THEN Append(teTasks,
                                 [request |-> [request EXCEPT
                                                 !.Quantity = r.Quantity],
                                  pc |-> "sleep"])
                          ELSE teTasks
  /\ UNCHANGED <<teRunning, teCtxDone, outsideExecutor>>

\* a goroutine setStopLossAndTakeProfit: after the sleep the stop-loss
\* request if the stop is set, then the take-profit request if the target
\* is set, each through ExecuteTrade
ExecutorTask ==
  /\ Alive
  /\ \E i \in 1..Len(teTasks), config \in Configs, place \in BOOLEAN :
        LET task == teTasks[i]
            entry == task.request.Signal
            req == IF task.pc = "sleep" THEN stopLossReq(task.request)
                   ELSE takeProfitReq(task.request)
            due == IF task.pc = "sleep" THEN entry.StopLoss # 0
                   ELSE entry.TakeProfit # 0
            r == ExecuteTrade(config, "error", place, req)
        IN  /\ teOrders' = IF due
                           THEN teOrders
                                  \o PlacedOrders(r.orders, "task", entry.Type)
                           ELSE teOrders
            /\ teTasks' = IF task.pc = "sleep"
                          THEN [teTasks EXCEPT ![i].pc = "takeProfit"]
                          ELSE [j \in 1..(Len(teTasks) - 1) |->
                                  IF j < i THEN teTasks[j]
                                  ELSE teTasks[j + 1]]
  /\ UNCHANGED <<teRunning, teCtxDone, teCall, outsideExecutor>>

NextExecutor ==
  ExecutorStart \/ ExecutorStop \/ ExecutorTrade \/ ExecutorTask

SpecExecutor == InitExecutor /\ [][NextExecutor]_vars

\* C31: once the TradeExecutor is stopped (te.ctx cancelled), a pending
\* setStopLossAndTakeProfit places no further order: no order of such a
\* goroutine was placed with the context cancelled
C31_NoOrderAfterStop ==
  \A i \in 1..Len(teOrders) :
     teOrders[i].by = "task" => ~teOrders[i].cancelled

\* C32: the orders a goroutine setStopLossAndTakeProfit places are on the
\* opposite side of its entry: SELL after a BUY entry, BUY after a SELL
\* entry
C32_ProtectiveOrdersOppose ==
  \A i \in 1..Len(teOrders) :
     teOrders[i].by = "task" =>
        teOrders[i].Side =
           (IF teOrders[i].entry = SignalBuy THEN "SELL" ELSE "BUY")

\* the cases in which ExecuteTrade has to refuse: the config not loaded,
\* missing or inactive, the signal nil, the quantity asked for and not
\* computed, or a signal type other than the four
Refused ==
  \/ teCall.config # "active"
  \/ teCall.signal = NilSignal
  \/ teCall.quantity = 0 /\ teCall.outcome \in {"unsized", "panic"}
  \/ teCall.signal.Type
       \notin {SignalBuy, SignalSell, SignalStopLoss, SignalTakeProfit}

\* C38: in each of these cases ExecuteTrade places no order and returns a
\* result with Success false and a non-nil Error
C38_RefusalsReturnError ==
  teCall.n > 0 /\ Refused =>
     /\ teCall.placed = 0
     /\ teCall.outcome # "panic"
     /\ ~teCall.Success
     /\ teCall.Error

(***************************************************************************)
(* SpecNotify: NotificationManager: Start, Stop, SendNotification and the  *)
(* worker goroutines around the queue channel.                             *)
(***************************************************************************)
\* nm.workers, and the capacity of nm.queue
workers == 3
NotifyQueueCap == 1000

MaxStarts == 2

InitNotify ==
  /\ StrategyInit
  /\ SignalIdle
  /\ StoreIdle
  /\ PipeIdle
  /\ StreamIdle

\* nm.Start(): refused while running; otherwise nm.workers goroutines are
\* started whatever happened before
NotifyStart ==
  /\ nmPanic = "none"
  /\ nmStarts < MaxStarts
  /\ ~nmRunning
  /\ nmWorkers' = nmWorkers + workers
  /\ nmRunning' = TRUE
  /\ nmStarts' = nmStarts + 1
  /\ UNCHANGED <<nmCtxDone, nmClosed, nmQueue, nmProcessed, nmSend, nmPanic,
                 outsideNotify>>

\* nm.Stop(): nothing while not running; otherwise nm.cancel() and
\* close(nm.queue), which panics on a closed channel
NotifyStop ==
  /\ nmPanic = "none"
  /\ nmRunning
  /\ nmCtxDone' = TRUE
  /\ IF nmClosed
     THEN /\ nmPanic' = "close of closed channel"
          /\ UNCHANGED <<nmRunning, nmClosed>>
     ELSE /\ nmClosed' = TRUE
          /\ nmRunning' = FALSE
          /\ UNCHANGED nmPanic
  /\ UNCHANGED <<nmQueue, nmWorkers, nmProcessed, nmSend, nmStarts,
                 outsideNotify>>

\* nm.SendNotification(notification), first half: running is read under the
\* read lock, which is released before the send
NotifySendBegin ==
  /\ nmPanic = "none"
  /\ nmSend.pending = 0
  /\ nmSend.n < MaxNotes
  /\ nmSend' = [nmSend EXCEPT !.n = @ + 1,
                              !.pending = IF nmRunning THEN nmSend.n + 1
                                          ELSE 0]
  /\ UNCHANGED <<nmRunning, nmCtxDone, nmClosed, nmQueue, nmWorkers,
                 nmProcessed, nmStarts, nmPanic, outsideNotify>>

\* nm.SendNotification(notification), second half: the select with the send
\* on nm.queue and a default; a send on a closed channel panics
NotifySendEnqueue ==
  /\ nmPanic = "none"
  /\ nmSend.pending # 0
  /\ IF nmClosed
     THEN /\ nmPanic' = "send on closed channel"
          /\ nmSend' = [nmSend EXCEPT !.pending = 0]
          /\ UNCHANGED nmQueue
     ELSE IF Len(nmQueue) < NotifyQueueCap
     THEN /\ nmQueue' = Append(nmQueue, nmSend.pending)
          /\ nmSend' = [nmSend EXCEPT !.pending = 0,
                                      !.accepted = @ \cup {nmSend.pending}]
          /\ UNCHANGED nmPanic
     ELSE /\ nmSend' = [nmSend EXCEPT !.pending = 0]
          /\ UNCHANGED <<nmQueue, nmPanic>>
  /\ UNCHANGED <<nmRunning, nmCtxDone, nmClosed, nmWorkers, nmProcessed,
                 nmStarts, outsideNotify>>

\* a worker's select takes the receive from nm.queue, which is ready while
\* the queue holds a notification, and runs processNotification
WorkerProcess ==
  /\ nmPanic = "none"
  /\ nmWorkers > 0
  /\ nmQueue # <<>>
  /\ nmQueue' = Tail(nmQueue)
  /\ nmProcessed' = [nmProcessed EXCEPT ![Head(nmQueue)] = @ + 1]
  /\ UNCHANGED <<nmRunning, nmCtxDone, nmClosed, nmWorkers, nmSend, nmStarts,
                 nmPanic, outsideNotify>>

\* a worker's select takes <-nm.ctx.Done(), ready once the context is
\* cancelled, or the receive reports the queue closed and drained: the
\* worker returns
WorkerReturn ==
  /\ nmPanic = "none"
  /\ nmWorkers > 0
  /\ nmCtxDone \/ (nmClosed /\ nmQueue = <<>>)
  /\ nmWorkers' = nmWorkers - 1
  /\ UNCHANGED <<nmRunning, nmCtxDone, nmClosed, nmQueue, nmProcessed, nmSend,
                 nmStarts, nmPanic, outsideNotify>>

NextNotify ==
  \/ NotifyStart
  \/ NotifyStop
  \/ NotifySendBegin
  \/ NotifySendEnqueue
  \/ WorkerProcess
  \/ WorkerReturn

SpecNotify == InitNotify /\ [][NextNotify]_vars

\* C33: under any interleaving of Start, Stop and SendNotification, a Start
\* after a Stop included, the queue channel is closed at most once and
\* nothing is sent on it after it was closed
C33_QueueClosedOnceNoSendAfter ==
  /\ nmPanic # "close of closed channel"
  /\ nmPanic # "send on closed channel"

\* C34: every notification for which SendNotification returned nil is
\* processed by a worker exactly once, those in the queue when Stop is
\* called included: once every worker has returned, each accepted
\* notification was processed once
C34_AcceptedProcessedOnce ==
  /\ \A id \in 1..MaxNotes : nmProcessed[id] <= 1
  /\ nmPanic = "none" /\ nmWorkers = 0 =>
        \A id \in nmSend.accepted : nmProcessed[id] = 1

(***************************************************************************)
(* SpecManager: StrategyManager: the registry (RegisterStrategy,           *)
(* UnregisterStrategy, GetStrategy), Start and Stop, and                   *)
(* ExecuteStrategiesAsync with its producer goroutines and a consumer      *)
(* that keeps reading.                                                     *)
(***************************************************************************)
\* the Strategy values handed to RegisterStrategy, and whether their
\* ValidateParameters returns nil
StrategyValues == {"v1", "v2", "invalid"}

StrategyValid(strategy) == strategy # "invalid"

\* RegisterStrategy that stores the strategy under a registered name too
registerStrategyOverwriting(m, name, strategy) ==
  IF ~StrategyValid(strategy) THEN [err |-> TRUE, map |-> m]
  ELSE [err |-> FALSE, map |-> MapPut(m, name, strategy)]

\* sm.RegisterStrategy(name, strategy) on the map m: the error (nil or not)
\* and the map afterwards
registerStrategy(m, name, strategy) ==
  IF name \in DOMAIN m THEN [err |-> TRUE, map |-> m]
  ELSE IF ~StrategyValid(strategy) THEN [err |-> TRUE, map |-> m]
  ELSE [err |-> FALSE, map |-> MapPut(m, name, strategy)]

\* sm.UnregisterStrategy(name)
unregisterStrategy(m, name) ==
  IF name \notin DOMAIN m THEN [err |-> TRUE, map |-> m]
  ELSE [err |-> FALSE, map |-> MapDelete(m, name)]

\* sm.GetStrategy(name): the strategy and the error
GetStrategy(m, name) ==
  IF name \notin DOMAIN m THEN [err |-> TRUE, strategy |-> ""]
  ELSE [err |-> FALSE, strategy |-> m[name]]

\* capacity of resultChan
ResultChanCap == 10

MaxAsyncCalls == 2

InitManager ==
  /\ StrategyInit
  /\ SignalIdle
  /\ StoreIdle
  /\ PipeIdle
  /\ StreamIdle

asyncVars == <<asyncCall, asyncPending, asyncChan, asyncReceived>>
registryVars == <<strategies, stmInstance, regCall, regLive>>

\* sm.Start()
ManagerStart ==
  /\ ~stmRunning
  /\ stmRunning' = TRUE
  /\ UNCHANGED <<stmCtxDone, registryVars, asyncVars, outsideManager>>

\* sm.Stop()
ManagerStop ==
  /\ stmRunning
  /\ stmRunning' = FALSE
  /\ stmCtxDone' = TRUE
  /\ UNCHANGED <<registryVars, asyncVars, outsideManager>>

\* sm.RegisterStrategy(name, strategy)
ManagerRegister ==
  /\ \E name \in StrategyNames, strategy \in StrategyValues :
        LET r == registerStrategy(stmInstance, name, strategy)
        IN  /\ stmInstance' = r.map
            /\ strategies' = DOMAIN r.map
            /\ regCall' = [op |-> "RegisterStrategy", name |-> name,
                           strategy |-> strategy, err |-> r.err,
                           found |-> "", tick |-> ~regCall.tick]
            /\ regLive' = IF r.err THEN regLive ELSE regLive \cup {name}
  /\ UNCHANGED <<stmRunning, stmCtxDone, asyncVars, outsideManager>>

\* sm.UnregisterStrategy(name)
ManagerUnregister ==
  /\ \E name \in StrategyNames :
        LET r == unregisterStrategy(stmInstance, name)
        IN  /\ stmInstance' = r.map
            /\ strategies' = DOMAIN r.map
            /\ regCall' = [op |-> "UnregisterStrategy", name |-> name,
                           strategy |-> "", err |-> r.err, found |-> "",
                           tick |-> ~regCall.tick]
            /\ regLive' = IF r.err THEN regLive ELSE regLive \ {name}
  /\ UNCHANGED <<stmRunning, stmCtxDone, asyncVars, outsideManager>>

\* sm.GetStrategy(name)
ManagerGet ==
  /\ \E name \in StrategyNames :
        LET r == GetStrategy(stmInstance, name)
        IN  regCall' = [op |-> "GetStrategy", name |-> name, strategy |-> "",
                        err |-> r.err, found |-> r.strategy,
                        tick |-> ~regCall.tick]
  /\ UNCHANGED <<stmRunning, stmCtxDone, strategies, stmInstance, regLive,
                 asyncVars, outsideManager>>

\* sm.ExecuteStrategiesAsync(symbol, klines): resultChan is made and the
\* goroutine started; the consumer has read the channel of the call before
\* to its end
AsyncCall ==
  /\ asyncCall.n < MaxAsyncCalls
  /\ asyncCall.pc \in {"idle", "closed"}
  /\ asyncChan = <<>>
  /\ asyncCall' = [n |-> asyncCall.n + 1, pc |-> "go", names |-> {}]
  /\ asyncPending' = {}
  /\ asyncReceived' = <<>>
  /\ UNCHANGED <<stmRunning, stmCtxDone, registryVars, asyncChan,
                 outsideManager>>

\* the goroutine takes the names under the read lock and starts one
\* producer per name
AsyncSnapshot ==
  /\ asyncCall.pc = "go"
  /\ asyncCall' = [asyncCall EXCEPT !.pc = "wait", !.names = strategies]
  /\ asyncPending' = strategies
  /\ UNCHANGED <<stmRunning, stmCtxDone, registryVars, asyncChan,
                 asyncReceived, outsideManager>>

\* sm.ExecuteStrategy(strategyName, ..): a result in any case, with Error
\* set when GetStrategy fails
ExecuteStrategy(name) ==
  [StrategyName |-> name, Error |-> GetStrategy(stmInstance, name).err]

\* a producer's select takes the send on resultChan, ready while the buffer
\* has room
ProducerSend ==
  /\ \E name \in asyncPending :
        /\ Len(asyncChan) < ResultChanCap
        /\ asyncChan' = Append(asyncChan, ExecuteStrategy(name))
        /\ asyncPending' = asyncPending \ {name}
  /\ UNCHANGED <<stmRunning, stmCtxDone, registryVars, asyncCall,
                 asyncReceived, outsideManager>>

\* a producer's select takes <-sm.ctx.Done(), ready once the context is
\* cancelled: the producer returns and its result is dropped
ProducerCancelled ==
  /\ stmCtxDone
  /\ \E name \in asyncPending : asyncPending' = asyncPending \ {name}
  /\ UNCHANGED <<stmRunning, stmCtxDone, registryVars, asyncCall, asyncChan,
                 asyncReceived, outsideManager>>

\* wg.Wait() returns and the deferred close(resultChan) runs
AsyncClose ==
  /\ asyncCall.pc = "wait"
  /\ asyncPending = {}
  /\ asyncCall' = [asyncCall EXCEPT !.pc = "closed"]
  /\ UNCHANGED <<stmRunning, stmCtxDone, registryVars, asyncPending,
                 asyncChan, asyncReceived, outsideManager>>

\* the consumer receives one result from the channel
ConsumerReceive ==
  /\ asyncChan # <<>>
  /\ asyncReceived' = Append(asyncReceived, Head(asyncChan))
  /\ asyncChan' = Tail(asyncChan)
  /\ UNCHANGED <<stmRunning, stmCtxDone, registryVars, asyncCall,
                 asyncPending, outsideManager>>

NextManager ==
  \/ ManagerStart
  \/ ManagerStop
  \/ ManagerRegister
  \/ ManagerUnregister
  \/ ManagerGet
  \/ AsyncCall
  \/ AsyncSnapshot
  \/ ProducerSend
  \/ ProducerCancelled
  \/ AsyncClose
  \/ ConsumerReceive

SpecManager == InitManager /\ [][NextManager]_vars

\* how many of the results received are of the strategy name
ReceivedOf(name) ==
  Cardinality({i \in 1..Len(asyncReceived) :
                 asyncReceived[i].StrategyName = name})

\* C35: the channel of ExecuteStrategiesAsync delivers exactly one result
\* per strategy registered at the snapshot and is then closed: once it is
\* closed and read to its end, the consumer holds one result per name of
\* the snapshot, and never more than one
C35_OneResultPerStrategy ==
  /\ \A name \in StrategyNames : ReceivedOf(name) <= 1
  /\ asyncCall.pc = "closed" /\ asyncChan = <<>> =>
        \A name \in asyncCall.names : ReceivedOf(name) = 1

\* a registry call was made in the step
RegistryCalled(op) == regCall'.tick # regCall.tick /\ regCall'.op = op

RegistryUnchanged == stmInstance' = stmInstance /\ strategies' = strategies

\* C39: the registry rejects without change: RegisterStrategy of a
\* registered name or of a strategy whose ValidateParameters fails returns
\* an error and leaves the map as it was, and so does UnregisterStrategy of
\* an unknown name; GetStrategy(name) returns a strategy exactly for the
\* names registered with success and not unregistered with success since,
\* and it is the one strategy registered under the name
C39_RegistryRejectsUnchanged ==
  [][/\ RegistryCalled("RegisterStrategy")
           /\ (regCall'.name \in DOMAIN stmInstance
                 \/ ~StrategyValid(regCall'.strategy))
        => regCall'.err /\ RegistryUnchanged
     /\ RegistryCalled("RegisterStrategy") /\ ~regCall'.err
        => /\ stmInstance'[regCall'.name] = regCall'.strategy
           /\ \A k \in DOMAIN stmInstance : stmInstance'[k] = stmInstance[k]
     /\ RegistryCalled("UnregisterStrategy")
           /\ regCall'.name \notin DOMAIN stmInstance
        => regCall'.err /\ RegistryUnchanged
     /\ RegistryCalled("GetStrategy")
        => /\ ~regCall'.err <=> regCall'.name \in regLive
           /\ ~regCall'.err => regCall'.found = stmInstance[regCall'.name]
           /\ RegistryUnchanged]_vars

\* a valid strategy offered under a name that holds another one was
\* refused, while the other name is not registered
C39_Witness ==
  /\ regCall.op = "RegisterStrategy"
  /\ regCall.err
  /\ StrategyValid(regCall.strategy)
  /\ regCall.name \in DOMAIN stmInstance
  /\ stmInstance[regCall.name] # regCall.strategy
  /\ \E name \in StrategyNames : name \notin regLive

(***************************************************************************)
(* SpecStream: the stream list of the WebSocket client                     *)
(***************************************************************************)
\* the stream names of the active subscriptions: the kline stream of each
\* and the ticker stream of its symbol
SubscribedStreams ==
  UNION { {KlineStreamName(key[1], key[2]), TickerStreamName(key[1])} :
            key \in {k \in DOMAIN smSubscriptions : smSubscriptions[k]} }

\* C36: ws.streams never holds the same stream name twice, whatever
\* Subscribe and Unsubscribe calls and health-check ticks were made, and it
\* is no longer than the number of distinct subscribed streams
C36_StreamListDistinct ==
  /\ \A i, j \in 1..Len(wsStreams) : wsStreams[i] = wsStreams[j] => i = j
  /\ Len(wsStreams) <= Cardinality(SubscribedStreams)

(***************************************************************************)
(* SpecClient: WebSocketClient: Start, Stop and the goroutines             *)
(* connectionLoop with connect and messageLoop.                            *)
(***************************************************************************)
MaxClientStarts == 3
MaxDelivered == 2

InitClient ==
  /\ StrategyInit
  /\ SignalIdle
  /\ StoreIdle
  /\ PipeIdle
  /\ StreamIdle

\* ws.Subscribe(stream, handler) before the client is started
ClientSubscribe ==
  /\ wsStreams = <<>>
  /\ LET ws == Subscribe(Ws, KlineStreamName("BTCUSDT", "15m"),
                         StrategyHandler)
     IN  /\ wsStreams' = ws.streams
         /\ wsHandlers' = ws.handlers
  /\ UNCHANGED <<wsRunning, clientVars, outsideClient>>

\* ws.Start(): an error while running; otherwise isRunning is set and a
\* goroutine connectionLoop started
ClientStart ==
  /\ ~wsRunning
  /\ Len(wsLoops) < MaxClientStarts
  /\ wsRunning' = TRUE
  /\ wsLoops' = Append(wsLoops, "loop")
  /\ UNCHANGED <<wsStreams, wsHandlers, wsReconnect, wsCtxDone, wsConn,
                 wsDelivered, outsideClient>>

\* ws.Stop(): nothing while not running; otherwise isRunning and reconnect
\* are cleared, the context cancelled and a connection, if any, closed
ClientStop ==
  /\ wsRunning
  /\ wsRunning' = FALSE
  /\ wsReconnect' = FALSE
  /\ wsCtxDone' = TRUE
  /\ wsConn' = IF wsConn = "nil" THEN "nil" ELSE "closed"
  /\ UNCHANGED <<wsStreams, wsHandlers, wsLoops, wsDelivered, outsideClient>>

\* connectionLoop: the test of ws.reconnect and of ws.ctx at the head of
\* the loop
LoopTest(i) ==
  /\ wsLoops[i] = "loop"
  /\ wsLoops' = [wsLoops EXCEPT ![i] = IF ~wsReconnect \/ wsCtxDone
                                       THEN "returned" ELSE "connect"]
  /\ UNCHANGED <<wsStreams, wsHandlers, wsRunning, wsReconnect, wsCtxDone,
                 wsConn, wsDelivered, outsideClient>>

\* ws.connect(): an error without streams or when the dial fails, and the
\* loop sleeps and starts over; otherwise ws.conn is the new connection and
\* messageLoop begins
LoopConnect(i) ==
  /\ wsLoops[i] = "connect"
  /\ \E dialed \in BOOLEAN :
        IF dialed /\ wsStreams # <<>>
        THEN /\ wsConn' = "open"
             /\ wsLoops' = [wsLoops EXCEPT ![i] = "read"]
        ELSE /\ wsLoops' = [wsLoops EXCEPT ![i] = "loop"]
             /\ UNCHANGED wsConn
  /\ UNCHANGED <<wsStreams, wsHandlers, wsRunning, wsReconnect, wsCtxDone,
                 wsDelivered, outsideClient>>

\* messageLoop: it returns, closing and clearing ws.conn, when the context
\* is cancelled, when ws.conn is nil and when ReadMessage fails (as it does
\* on a closed connection); otherwise a message is read
LoopRead(i) ==
  /\ wsLoops[i] = "read"
  /\ \E read \in BOOLEAN :
        IF read /\ ~wsCtxDone /\ wsConn = "open"
        THEN /\ wsDelivered < MaxDelivered
             /\ wsLoops' = [wsLoops EXCEPT ![i] = "handle"]
             /\ UNCHANGED wsConn
        ELSE /\ wsConn' = "nil"
             /\ wsLoops' = [wsLoops EXCEPT ![i] = "loop"]
  /\ UNCHANGED <<wsStreams, wsHandlers, wsRunning, wsReconnect, wsCtxDone,
                 wsDelivered, outsideClient>>

\* messageLoop: ws.handleMessage(message) for the message read
LoopHandle(i) ==
  /\ wsLoops[i] = "handle"
  /\ wsDelivered' = wsDelivered + 1
  /\ wsLoops' = [wsLoops EXCEPT ![i] = "read"]
  /\ UNCHANGED <<wsStreams, wsHandlers, wsRunning, wsReconnect, wsCtxDone,
                 wsConn, outsideClient>>

\* any of the goroutines takes its step
ConnectionLoopTest == \E i \in 1..Len(wsLoops) : LoopTest(i)
ConnectionLoopConnect == \E i \in 1..Len(wsLoops) : LoopConnect(i)
MessageLoopRead == \E i \in 1..Len(wsLoops) : LoopRead(i)
MessageLoopHandle == \E i \in 1..Len(wsLoops) : LoopHandle(i)

NextClient ==
  \/ ClientSubscribe
  \/ ClientStart
  \/ ClientStop
  \/ ConnectionLoopTest
  \/ ConnectionLoopConnect
  \/ MessageLoopRead
  \/ MessageLoopHandle

SpecClient == InitClient /\ [][NextClient]_vars

\* C37: after Stop the connectionLoop terminates, and a later Start that
\* returns nil brings the client back to connecting and delivering: while
\* the client is running, a connectionLoop is at work
C37_RunningClientHasLoop ==
  wsRunning => \E i \in 1..Len(wsLoops) : wsLoops[i] # "returned"

(***************************************************************************)
(* SpecSignal: the confidence of the entries                               *)
(***************************************************************************)
\* C40: every Buy or Sell that GenerateSignal returns has confidence 0.8 or
\* 0.9 (80 or 90 hundredths): the condition of the 0.2 bonus is the trend
\* condition the entry has passed, on the same 4H tunnel
C40_ConfidenceEightOrNine ==
  BuyEmitted \/ SellEmitted => lastSignal.Confidence \in {80, 90}

\* a Sell at 0.8 under a bearish 4H tunnel, with the 15M tunnel not
\* separated downwards
C40_Witness ==
  /\ SellEmitted
  /\ lastSignal.Confidence = 80
  /\ SlowBearish
  /\ ~(FastMidUpper < FastLongLower)

=============================================================================
